---- MODULE Spec2Model ----
(***************************************************************************)
(* Model of the phase reconciler of package-operator                       *)
(* (internal/controllers, PhaseReconciler).                                *)
(*                                                                         *)
(* Several owners (object sets of different revisions) declare the same    *)
(* cluster object in their phase.  Every ReconcilePhase call reads the     *)
(* object from the dynamic cache, which lags behind the API server, and    *)
(* writes through the client writer.  A call is split at the points where  *)
(* it writes to the API server: everything up to and including its first   *)
(* write is one step, the apply patch that follows an ownership patch is   *)
(* a second step.                                                          *)
(***************************************************************************)
EXTENDS Integers, Sequences, FiniteSets, TLC

\* ---------------------------------------------------------------- bounds
MaxRev == 3          \* owner revisions are drawn from 1..MaxRev
MaxRV == 4           \* the API server hands out resource versions 1..MaxRV

\* ------------------------------------------------------------ vocabulary
Owners == {"X", "Y", "Z"}            \* UIDs of the reconcile owners
UIDs == Owners                       \* UIDs that may appear in owner references
Specs == {"a", "b"}                  \* contents a phase may declare for the object
DynamicCacheLabel == "cache"         \* package-operator.run/cache
UserLabel == "app"                   \* a label set by somebody else
OwnerNamespaces == {"", "ns1"}       \* "" is a cluster-scoped owner
DeclaredNamespace == "ns2"           \* namespace written in the phase object
DesiredSpec(o) == IF o = "X" THEN "a" ELSE "b"

VARIABLES
    rev,        \* rev[o]: owner.GetRevision()
    prev,       \* prev[o]: the owners listed as previous revisions of o
    remote,     \* remote[o]: UIDs of the remote phases of o (GetRemotePhases)
    ownerNs,    \* namespace of the owners ("" when cluster-scoped)
    environ,    \* names of the environment variables that hold a value
    live,       \* the object as stored by the API server
    cache,      \* the object as held by the dynamic cache
    rvc,        \* last resource version handed out by the API server
    loc,        \* loc[o]: position and locals of o's ReconcilePhase call
    last,       \* record of the call that completed most recently
    settled,    \* owners whose last call succeeded with no cluster write since
    prevCtrl,   \* the owner that controlled the object before its controller
    ownerConds, \* ownerConds[o]: status of the mapped condition on owner o
    lastTd,     \* record of the TeardownPhase call that completed most recently
    adoptee,    \* adoptee[o]: the previous revision that a call of o found in
                \* control of the object, read from a cache showing the live
                \* object, nobody else having written since
    template,   \* the template owner as stored by the API server
    watching,   \* kinds the dynamic cache watches for the template owner
    sourceObjs, \* sourceObjs[n]: content of the source object named n
    existingPkg,\* the derived object as stored by the API server
    lastRec,    \* record of the template reconcile that completed last
    hostedCluster, \* the HostedCluster as stored by the API server
    package,    \* the Package of the derived key as stored by the API server
    image,      \* the image the hosted cluster controller is configured with
    lastHosted, \* record of the hosted cluster reconcile that completed last
    mapIn,      \* the arguments of a call of mapConditions
    mapOut,     \* the owner's conditions and the error after that call
    phaseIn,    \* the arguments of a call of ReconcilePhase on several objects
    phaseOut,   \* what that call did and returned
    patchIn,    \* the arguments of a call of the patcher
    patchOut,   \* the apply body and the outcome of that call
    pkgConds,   \* the status conditions of a Package held by the adapter
    pkgPhase    \* its status phase, "" until UpdatePhase has run

phaseVars == <<rev, prev, remote, ownerNs, environ, live, cache, rvc, loc, last,
               settled, prevCtrl, ownerConds, lastTd, adoptee>>
templateVars == <<template, watching, sourceObjs, existingPkg, lastRec>>
hostedVars == <<hostedCluster, package, image, lastHosted>>
conditionVars == <<mapIn, mapOut>>
loopVars == <<phaseIn, phaseOut>>
patchVars == <<patchIn, patchOut>>
packageVars == <<pkgConds, pkgPhase>>
outsidePatcher ==
    <<templateVars, hostedVars, conditionVars, loopVars, packageVars>>
outsidePhase == <<outsidePatcher, patchVars>>
outsideTemplate ==
    <<phaseVars, hostedVars, conditionVars, loopVars, patchVars,
      packageVars>>
outsideHosted ==
    <<phaseVars, templateVars, conditionVars, loopVars, patchVars,
      packageVars>>
outsideConditions ==
    <<phaseVars, templateVars, hostedVars, loopVars, patchVars,
      packageVars>>
outsidePackage ==
    <<phaseVars, templateVars, hostedVars, conditionVars, loopVars,
      patchVars>>
outsideLoop ==
    <<phaseVars, templateVars, hostedVars, conditionVars, patchVars,
      packageVars>>
vars == <<rev, prev, remote, ownerNs, environ, live, cache, rvc, loc, last,
          settled, prevCtrl, ownerConds, lastTd, adoptee,
          template, watching, sourceObjs, existingPkg, lastRec,
          hostedCluster, package, image, lastHosted, mapIn, mapOut,
          phaseIn, phaseOut, patchIn, patchOut, pkgConds, pkgPhase>>

\* --------------------------------------------------------------- objects
NoRefs == [u \in UIDs |-> "none"]
NoObject ==
    [exists |-> FALSE, ns |-> "", refs |-> NoRefs, ann |-> <<>>,
     labels |-> {}, spec |-> "", rv |-> 0, cond |-> "none"]

Controllers(obj) == {u \in UIDs : obj.refs[u] = "ctrl"}

\* ----------------------------------------------- revision annotation
Digits == <<"0", "1", "2", "3", "4", "5", "6", "7", "8", "9">>
DigitVal(c) == (CHOOSE i \in 1..10 : Digits[i] = c) - 1
IsDigit(c) == \E i \in 1..10 : Digits[i] = c

RECURSIVE FormatInt(_)
FormatInt(n) ==
    IF n < 10 THEN <<Digits[n + 1]>>
    ELSE Append(FormatInt(n \div 10), Digits[(n % 10) + 1])

RECURSIVE ParseDigits(_, _)
ParseDigits(s, acc) ==
    IF s = <<>> THEN acc
    ELSE ParseDigits(Tail(s), acc * 10 + DigitVal(Head(s)))

ParseInt(s) ==
    IF s # <<>> /\ \A i \in 1..Len(s) : IsDigit(s[i])
    THEN [err |-> FALSE, val |-> ParseDigits(s, 0)]
    ELSE [err |-> TRUE, val |-> 0]

\* Mutant of getObjectRevision: an annotation that does not parse reads as
\* revision 0.
getObjectRevision_UnparsableIsZero(obj) ==
    IF obj.ann = <<>> \/ ParseInt(obj.ann).err
    THEN [err |-> FALSE, val |-> 0]
    ELSE ParseInt(obj.ann)

\* The annotation of an object is the value found under the revision key,
\* <<>> when the key or the annotations are missing.
getObjectRevision(obj) ==
    IF obj.ann = <<>> THEN [err |-> FALSE, val |-> 0] ELSE ParseInt(obj.ann)

setObjectRevision(obj, revision) == [obj EXCEPT !.ann = FormatInt(revision)]

\* ------------------------------------------------------- owner strategy
IsController(owner, obj) == obj.refs[owner] = "ctrl"

ReleaseController(obj) ==
    [obj EXCEPT !.refs = [u \in UIDs |->
        IF obj.refs[u] = "ctrl" THEN "owner" ELSE obj.refs[u]]]

SetControllerReference(owner, obj) ==
    IF \E u \in UIDs \ {owner} : obj.refs[u] = "ctrl"
    THEN [err |-> TRUE, obj |-> obj]
    ELSE [err |-> FALSE, obj |-> [obj EXCEPT !.refs[owner] = "ctrl"]]

OwnerPatch(obj) == obj.refs

RemoveOwner(owner, obj) == [obj EXCEPT !.refs[owner] = "none"]

\* ---------------------------------------------------- desired object
PhaseObject(owner) ==
    [NoObject EXCEPT !.exists = TRUE, !.ns = DeclaredNamespace,
                     !.spec = DesiredSpec(owner)]

\* Mutant of desiredObject: the namespace of the phase object is kept.
desiredObject_KeepNamespace(owner) ==
    LET declared == PhaseObject(owner)
        labelled == [declared EXCEPT !.labels = @ \cup {DynamicCacheLabel}]
        stamped == setObjectRevision(labelled, rev[owner])
    IN  SetControllerReference(owner, stamped)

\* Builds an object as specified in a phase: namespace defaulted to the
\* owner's, cache label, revision annotation, controller reference.
desiredObject(owner) ==
    LET declared == PhaseObject(owner)
        namespaced == IF ownerNs # "" THEN [declared EXCEPT !.ns = ownerNs]
                      ELSE declared
        labelled == [namespaced EXCEPT !.labels = @ \cup {DynamicCacheLabel}]
        stamped == setObjectRevision(labelled, rev[owner])
    IN  SetControllerReference(owner, stamped)

\* --------------------------------------------------- adoption checker
\* os.Getenv: the value of an environment variable, "" when it is unset.
\* At most one of the two names is set.
EnvNames == {"FORCE_ADOPTION", "PKO_FORCE_ADOPTION"}
Environments == {e \in SUBSET EnvNames : Cardinality(e) <= 1}
Getenv(key) == IF key \in environ THEN "true" ELSE ""

\* The adoption override is set.
Forced == Getenv("PKO_FORCE_ADOPTION") # ""

\* Mutant of isControlledByPreviousRevision: the remote phases of the
\* previous revisions are not tested.
isControlledByPreviousRevision_DirectOnly(obj, previous) ==
    \E p \in previous : IsController(p, obj)

\* Mutant of isControlledByPreviousRevision: only the remote phases of the
\* previous revisions are tested, not the previous revisions themselves.
isControlledByPreviousRevision_RemoteOnly(obj, previous) ==
    \E p \in previous :
        \E potentialRemoteOwner \in remote[p] :
            IsController(potentialRemoteOwner, obj)

\* Mutant of isControlledByPreviousRevision: any controller counts as a
\* previous revision.
isControlledByPreviousRevision_AnyController(obj, previous) ==
    \E u \in UIDs : IsController(u, obj)

\* The remote phase of a previous revision is tested through a synthetic
\* owner carrying its UID; IsController compares UIDs only.
isControlledByPreviousRevision(obj, previous) ==
    \E p \in previous :
        \/ IsController(p, obj)
        \/ \E potentialRemoteOwner \in remote[p] :
              IsController(potentialRemoteOwner, obj)

\* Mutant of Check: the override is looked at after the controller
\* reference, so that an owner does not adopt what it controls already.
Check_OverrideAfterController(owner, obj, previous) ==
    IF IsController(owner, obj) THEN [adopt |-> FALSE, err |-> "none"]
    ELSE IF Getenv("PKO_FORCE_ADOPTION") # ""
    THEN [adopt |-> TRUE, err |-> "none"]
    ELSE LET currentRevision == getObjectRevision(obj) IN
        IF currentRevision.err
        THEN [adopt |-> FALSE, err |-> "RevisionParseError"]
        ELSE IF currentRevision.val > rev[owner]
        THEN [adopt |-> FALSE, err |-> "none"]
        ELSE IF ~isControlledByPreviousRevision(obj, previous)
        THEN [adopt |-> FALSE, err |-> "ObjectNotOwnedByPreviousRevisionError"]
        ELSE IF currentRevision.val = rev[owner]
        THEN [adopt |-> FALSE, err |-> "RevisionCollisionError"]
        ELSE [adopt |-> TRUE, err |-> "none"]

\* Mutant of Check: adoption is unconditional, as if the override were set.
Check_Unconditional(owner, obj, previous) ==
    [adopt |-> TRUE, err |-> "none"]

\* Mutant of Check: a newer revision on the object does not stop the check.
Check_NoNewerGuard(owner, obj, previous) ==
    IF Getenv("PKO_FORCE_ADOPTION") # "" THEN [adopt |-> TRUE, err |-> "none"]
    ELSE IF IsController(owner, obj) THEN [adopt |-> FALSE, err |-> "none"]
    ELSE LET currentRevision == getObjectRevision(obj) IN
        IF currentRevision.err
        THEN [adopt |-> FALSE, err |-> "RevisionParseError"]
        ELSE IF ~isControlledByPreviousRevision(obj, previous)
        THEN [adopt |-> FALSE, err |-> "ObjectNotOwnedByPreviousRevisionError"]
        ELSE IF currentRevision.val = rev[owner]
        THEN [adopt |-> FALSE, err |-> "RevisionCollisionError"]
        ELSE [adopt |-> TRUE, err |-> "none"]

\* Check detects whether an ownership change is needed.
Check(owner, obj, previous) ==
    IF Getenv("PKO_FORCE_ADOPTION") # "" THEN [adopt |-> TRUE, err |-> "none"]
    ELSE IF IsController(owner, obj) THEN [adopt |-> FALSE, err |-> "none"]
    ELSE LET currentRevision == getObjectRevision(obj) IN
        IF currentRevision.err
        THEN [adopt |-> FALSE, err |-> "RevisionParseError"]
        ELSE IF currentRevision.val > rev[owner]
        THEN [adopt |-> FALSE, err |-> "none"]
        ELSE IF ~isControlledByPreviousRevision(obj, previous)
        THEN [adopt |-> FALSE, err |-> "ObjectNotOwnedByPreviousRevisionError"]
        ELSE IF currentRevision.val = rev[owner]
        THEN [adopt |-> FALSE, err |-> "RevisionCollisionError"]
        ELSE [adopt |-> TRUE, err |-> "none"]

\* ------------------------------------------------------------ patcher
mergeKeysFrom(base, additional) == base \cup additional

\* Mutant of PatchBody: the annotations of the live object win over the
\* desired ones.
PatchBody_LiveAnnotationsWin(desiredObj, updatedObj) ==
    [desiredObj EXCEPT
        !.labels = mergeKeysFrom(updatedObj.labels, desiredObj.labels),
        !.ann = IF updatedObj.ann # <<>> THEN updatedObj.ann ELSE @,
        !.cond = "none",
        !.refs = NoRefs]

\* Mutant of PatchBody: the owner references of the desired object stay in
\* the body.
PatchBody_WithOwnerReferences(desiredObj, updatedObj) ==
    [desiredObj EXCEPT
        !.labels = mergeKeysFrom(updatedObj.labels, desiredObj.labels),
        !.cond = "none"]

\* The apply body: desired with the live labels overlaid under the desired
\* ones, without status and without metadata.ownerReferences.
PatchBody(desiredObj, updatedObj) ==
    [desiredObj EXCEPT
        !.labels = mergeKeysFrom(updatedObj.labels, desiredObj.labels),
        !.cond = "none",
        !.refs = NoRefs]

\* Mutant of DeepDerivative: plain equality.
DeepDerivative_Equal(patch, base) == patch = base

\* equality.Semantic.DeepDerivative(patch, base): every field set in patch
\* is present and equal in base; unset fields of patch are ignored.
DeepDerivative(patch, base) ==
    /\ patch.ns = "" \/ patch.ns = base.ns
    /\ patch.labels \subseteq base.labels
    /\ patch.ann = <<>> \/ patch.ann = base.ann
    /\ patch.spec = "" \/ patch.spec = base.spec
    /\ \A u \in UIDs : patch.refs[u] = "none" \/ patch.refs[u] = base.refs[u]

\* --------------------------------------------------------- API server
\* Every write is answered with the stored object, which the client
\* decodes into the object it was given.  A write that changes the stored
\* object gets a fresh resource version.
Present(key) == live.exists /\ live.ns = key

Stored(new) ==
    IF new = live THEN [live |-> live, rvc |-> rvc]
    ELSE [live |-> [new EXCEPT !.rv = rvc + 1], rvc |-> rvc + 1]

ServerCreate(obj, fail) ==
    IF fail \/ rvc >= MaxRV
    THEN [err |-> "CreateError", live |-> live, rvc |-> rvc]
    ELSE IF live.exists
    THEN [err |-> "AlreadyExists", live |-> live, rvc |-> rvc]
    ELSE [err |-> "none"] @@ Stored(obj)

\* JSON merge patch of metadata.ownerReferences: replaces the list, carries
\* no resource version.
ServerMergePatch(key, refs, fail) ==
    IF fail \/ rvc >= MaxRV
    THEN [err |-> "OwnerPatchError", live |-> live, rvc |-> rvc]
    ELSE IF ~Present(key)
    THEN [err |-> "NotFound", live |-> live, rvc |-> rvc]
    ELSE [err |-> "none"] @@ Stored([live EXCEPT !.refs = refs])

\* Server-side apply, forced, with the resource version of the body as
\* precondition.
ServerApply(body, resourceVersion, fail) ==
    IF fail \/ rvc >= MaxRV
    THEN [err |-> "ApplyError", live |-> live, rvc |-> rvc]
    ELSE IF ~Present(body.ns) \/ live.rv # resourceVersion
    THEN [err |-> "Conflict", live |-> live, rvc |-> rvc]
    ELSE [err |-> "none"] @@
         Stored([live EXCEPT !.labels = @ \cup body.labels,
                             !.ann = body.ann, !.spec = body.spec])

\* Update replaces the stored object by the one sent, status excepted, when
\* the resource version sent is the stored one.
ServerUpdate(obj, fail) ==
    IF fail \/ rvc >= MaxRV
    THEN [err |-> "UpdateError", live |-> live, rvc |-> rvc]
    ELSE IF ~Present(obj.ns)
    THEN [err |-> "NotFound", live |-> live, rvc |-> rvc]
    ELSE IF live.rv # obj.rv
    THEN [err |-> "Conflict", live |-> live, rvc |-> rvc]
    ELSE [err |-> "none"] @@
         Stored([live EXCEPT !.refs = obj.refs, !.ann = obj.ann,
                             !.labels = obj.labels, !.spec = obj.spec])

\* Delete names the object by its key only, without preconditions.
ServerDelete(key, fail) ==
    IF fail
    THEN [err |-> "DeleteError", live |-> live, rvc |-> rvc]
    ELSE IF ~Present(key)
    THEN [err |-> "NotFound", live |-> live, rvc |-> rvc]
    ELSE [err |-> "none", live |-> NoObject, rvc |-> rvc]

\* dynamicCache.Get
CacheGet(key) == IF cache.exists /\ cache.ns = key THEN cache ELSE NoObject

\* ------------------------------------------------------ reconciliation
\* Result of the part of a call that runs up to and including its first
\* write.  pending: an ownership patch was written and the apply patch of
\* the patcher is still to be issued.
Outcome(err, srv, ops, actual, pending, cur, upd) ==
    [err |-> err, live |-> srv.live, rvc |-> srv.rvc, ops |-> ops,
     actual |-> actual, pending |-> pending, cur |-> cur, upd |-> upd]

Untouched == [live |-> live, rvc |-> rvc]

\* Mutant of Patch: the apply patch names the resource version the API
\* server stores, as if it carried none.
Patch_WithoutResourceVersion(desiredObj, currentObj, updatedObj, fail) ==
    LET patch == PatchBody(desiredObj, updatedObj) IN
    IF ~DeepDerivative(patch, updatedObj)
    THEN LET w == ServerApply(patch, live.rv, fail) IN
         Outcome(w.err, w, <<"Apply">>,
                 IF w.err = "none" THEN <<w.live>> ELSE <<>>,
                 FALSE, currentObj,
                 IF w.err = "none" THEN w.live ELSE updatedObj)
    ELSE Outcome("none", Untouched, <<>>, <<updatedObj>>, FALSE,
                 currentObj, updatedObj)

\* defaultPatcher.Patch: applies desiredObj when it is not already a
\* sub-tree of updatedObj, with the resource version of currentObj.
Patch(desiredObj, currentObj, updatedObj, fail) ==
    LET patch == PatchBody(desiredObj, updatedObj) IN
    IF ~DeepDerivative(patch, updatedObj)
    THEN LET w == ServerApply(patch, currentObj.rv, fail) IN
         Outcome(w.err, w, <<"Apply">>,
                 IF w.err = "none" THEN <<w.live>> ELSE <<>>,
                 FALSE, currentObj,
                 IF w.err = "none" THEN w.live ELSE updatedObj)
    ELSE Outcome("none", Untouched, <<>>, <<updatedObj>>, FALSE,
                 currentObj, updatedObj)

\* Mutant of Adopt: the previous controller is not released.
Adopt_KeepController(owner, currentObj) ==
    [err |-> FALSE,
     obj |-> [setObjectRevision(currentObj, rev[owner])
                 EXCEPT !.refs[owner] = "ctrl"]]

\* The edits reconcileObject makes to updatedObj before the ownership patch.
Adopt(owner, currentObj) ==
    SetControllerReference(owner,
        ReleaseController(setObjectRevision(currentObj, rev[owner])))

reconcileObject(owner, desiredObj, fail) ==
    LET currentObj == CacheGet(desiredObj.ns) IN
    IF ~currentObj.exists
    THEN LET w == ServerCreate(desiredObj, fail) IN
         Outcome(w.err, w, <<"Get", "Create">>,
                 IF w.err = "none" THEN <<w.live>> ELSE <<>>,
                 FALSE, currentObj, currentObj)
    ELSE LET chk == Check(owner, currentObj, prev[owner]) IN
    IF chk.err # "none"
    THEN Outcome(chk.err, Untouched, <<"Get">>, <<>>, FALSE,
                 currentObj, currentObj)
    ELSE IF chk.adopt
    THEN LET adopted == Adopt(owner, currentObj)
             w == ServerMergePatch(desiredObj.ns, OwnerPatch(adopted.obj), fail)
         IN  IF adopted.err
             THEN Outcome("SetControllerReferenceError", Untouched, <<"Get">>,
                          <<>>, FALSE, currentObj, currentObj)
             ELSE IF w.err # "none"
             THEN Outcome(w.err, w, <<"Get", "OwnerPatch">>, <<>>, FALSE,
                          currentObj, adopted.obj)
             ELSE IF /\ IsController(owner, w.live)
                     /\ ~DeepDerivative(PatchBody(desiredObj, w.live), w.live)
             THEN Outcome("none", w, <<"Get", "OwnerPatch">>, <<>>, TRUE,
                          currentObj, w.live)
             ELSE Outcome("none", w, <<"Get", "OwnerPatch">>, <<w.live>>,
                          FALSE, currentObj, w.live)
    ELSE IF IsController(owner, currentObj)
    THEN LET p == Patch(desiredObj, currentObj, currentObj, fail) IN
         [p EXCEPT !.ops = <<"Get">> \o @]
    ELSE Outcome("none", Untouched, <<"Get">>, <<currentObj>>, FALSE,
                 currentObj, currentObj)

\* Mutant of reconcilePhaseObject: a paused owner is reconciled like any
\* other.
reconcilePhaseObject_IgnorePause(owner, paused, watchErr, fail) ==
    LET d == desiredObject(owner) IN
    IF d.err
    THEN Outcome("SetControllerReferenceError", Untouched, <<>>, <<>>, FALSE,
                 NoObject, NoObject)
    ELSE IF watchErr
    THEN Outcome("WatchError", Untouched, <<"Watch">>, <<>>, FALSE,
                 NoObject, NoObject)
    ELSE LET r == reconcileObject(owner, d.obj, fail) IN
         [r EXCEPT !.ops = <<"Watch">> \o @]

reconcilePhaseObject(owner, paused, watchErr, fail) ==
    LET d == desiredObject(owner) IN
    IF d.err
    THEN Outcome("SetControllerReferenceError", Untouched, <<>>, <<>>, FALSE,
                 NoObject, NoObject)
    ELSE IF watchErr
    THEN Outcome("WatchError", Untouched, <<"Watch">>, <<>>, FALSE,
                 NoObject, NoObject)
    ELSE IF paused
    THEN LET actualObj == CacheGet(d.obj.ns) IN
         IF actualObj.exists
         THEN Outcome("none", Untouched, <<"Watch", "Get">>, <<actualObj>>,
                      FALSE, actualObj, actualObj)
         ELSE Outcome("PausedLookupError", Untouched, <<"Watch", "Get">>, <<>>,
                      FALSE, actualObj, actualObj)
    ELSE LET r == reconcileObject(owner, d.obj, fail) IN
         [r EXCEPT !.ops = <<"Watch">> \o @]

\* ------------------------------------------------------------ teardown
TeardownOutcome(err, srv, ops, done, cur) ==
    [err |-> err, live |-> srv.live, rvc |-> srv.rvc, ops |-> ops,
     done |-> done, cur |-> cur]

\* Mutant of teardownPhaseObject: the object is read from the dynamic cache
\* although the watch could not be registered.
teardownPhaseObject_ReadUnwatched(owner, watchErr, fail) ==
    LET d == desiredObject(owner) IN
    IF d.err
    THEN TeardownOutcome("SetControllerReferenceError", Untouched, <<>>, FALSE,
                         NoObject)
    ELSE LET currentObj == CacheGet(d.obj.ns) IN
    IF ~currentObj.exists
    THEN TeardownOutcome("none", Untouched, <<"Get", "Watch">>, TRUE,
                         currentObj)
    ELSE IF watchErr
    THEN TeardownOutcome("WatchError", Untouched, <<"Get", "Watch">>, FALSE,
                         currentObj)
    ELSE IF ~IsController(owner, currentObj)
    THEN LET w == ServerUpdate(RemoveOwner(owner, currentObj), fail) IN
         TeardownOutcome(w.err, w, <<"Get", "Watch", "Update">>,
                         w.err = "none", currentObj)
    ELSE LET w == ServerDelete(d.obj.ns, fail) IN
         IF w.err = "NotFound"
         THEN TeardownOutcome("none", w, <<"Get", "Watch", "Delete">>, TRUE,
                              currentObj)
         ELSE TeardownOutcome(w.err, w, <<"Get", "Watch", "Delete">>, FALSE,
                              currentObj)

\* Mutant of teardownPhaseObject: the owner only removes its reference,
\* also from an object it controls.
teardownPhaseObject_NeverDelete(owner, watchErr, fail) ==
    LET d == desiredObject(owner) IN
    IF d.err
    THEN TeardownOutcome("SetControllerReferenceError", Untouched, <<>>, FALSE,
                         NoObject)
    ELSE IF watchErr
    THEN TeardownOutcome("WatchError", Untouched, <<"Watch">>, FALSE, NoObject)
    ELSE LET currentObj == CacheGet(d.obj.ns) IN
    IF ~currentObj.exists
    THEN TeardownOutcome("none", Untouched, <<"Watch", "Get">>, TRUE,
                         currentObj)
    ELSE LET w == ServerUpdate(RemoveOwner(owner, currentObj), fail) IN
         TeardownOutcome(w.err, w, <<"Watch", "Get", "Update">>,
                         w.err = "none", currentObj)

teardownPhaseObject(owner, watchErr, fail) ==
    LET d == desiredObject(owner) IN
    IF d.err
    THEN TeardownOutcome("SetControllerReferenceError", Untouched, <<>>, FALSE,
                         NoObject)
    ELSE IF watchErr
    THEN TeardownOutcome("WatchError", Untouched, <<"Watch">>, FALSE, NoObject)
    ELSE LET currentObj == CacheGet(d.obj.ns) IN
    IF ~currentObj.exists
    THEN TeardownOutcome("none", Untouched, <<"Watch", "Get">>, TRUE,
                         currentObj)
    ELSE IF ~IsController(owner, currentObj)
    THEN LET w == ServerUpdate(RemoveOwner(owner, currentObj), fail) IN
         TeardownOutcome(w.err, w, <<"Watch", "Get", "Update">>,
                         w.err = "none", currentObj)
    ELSE LET w == ServerDelete(d.obj.ns, fail) IN
         IF w.err = "NotFound"
         THEN TeardownOutcome("none", w, <<"Watch", "Get", "Delete">>, TRUE,
                              currentObj)
         ELSE TeardownOutcome(w.err, w, <<"Watch", "Get", "Delete">>, FALSE,
                              currentObj)

\* The loop of TeardownPhase over the results of teardownPhaseObject for
\* the objects of the phase, each "done", "notdone" or "err": the first
\* error ends the call, otherwise the objects counted done are compared
\* with the number of objects.
RECURSIVE CleanupCounter(_)
CleanupCounter(results) ==
    IF results = <<>> THEN 0
    ELSE (IF Head(results) = "done" THEN 1 ELSE 0) + CleanupCounter(Tail(results))

\* Mutant of TeardownResult: one object counted done is enough.
TeardownResult_AnyDone(results) ==
    IF \E i \in 1..Len(results) : results[i] = "err"
    THEN [err |-> TRUE, cleanupDone |-> FALSE]
    ELSE [err |-> FALSE, cleanupDone |-> CleanupCounter(results) >= 1]

TeardownResult(results) ==
    IF \E i \in 1..Len(results) : results[i] = "err"
    THEN [err |-> TRUE, cleanupDone |-> FALSE]
    ELSE [err |-> FALSE, cleanupDone |-> CleanupCounter(results) = Len(results)]

\* mapConditions: the mapped condition of the actual object, when it has
\* one, replaces the owner's condition of the destination type.
mapConditions(owner, actualObject) ==
    IF actualObject.cond = "none" THEN ownerConds[owner]
    ELSE actualObject.cond

\* -------------------------------------------------------------- calls
\* loc[o]: pc is "apply" between the ownership patch of a call and its
\* apply patch.  before: the live object when the call began.  fresh: the
\* call read a cache that showed the live object and nobody else has
\* written since.  idem: moreover the owner's previous call had succeeded
\* and nothing was written since it returned.
Idle == [pc |-> "idle", cur |-> NoObject, upd |-> NoObject, ops |-> <<>>,
         before |-> NoObject, fresh |-> FALSE, idem |-> FALSE]

NoCall ==
    [owner |-> "none", viol |-> FALSE, paused |-> FALSE, seen |-> NoObject,
     before |-> NoObject, after |-> NoObject, condBefore |-> "none",
     condAfter |-> "none", ops |-> <<>>, res |-> "none", actual |-> <<>>,
     fresh |-> FALSE, idem |-> FALSE]

\* adoptedFrom: the previous revision from which the owner had adopted the
\* object, by a ReconcilePhase that succeeded, when it began to tear down.
NoTeardown ==
    [owner |-> "none", seen |-> NoObject, before |-> NoObject,
     after |-> NoObject, ops |-> <<>>, res |-> "none", done |-> FALSE,
     results |-> <<>>, adoptedFrom |-> "none"]

config == <<rev, prev, remote, ownerNs, environ>>

TargetNamespace == IF ownerNs # "" THEN ownerNs ELSE DeclaredNamespace

\* The API server now stores newLive: remember the controller it replaces.
Track(newLive, newRvc) ==
    /\ live' = newLive
    /\ rvc' = newRvc
    /\ prevCtrl' =
         IF Controllers(newLive) # Controllers(live)
         THEN IF Controllers(live) = {} THEN "none"
              ELSE CHOOSE u \in Controllers(live) : TRUE
         ELSE prevCtrl

\* The previous revision of o that controls obj with a revision below o's.
Adoptable(o, obj) ==
    IF /\ obj.exists
       /\ ~getObjectRevision(obj).err
       /\ getObjectRevision(obj).val < rev[o]
       /\ \E x \in prev[o] : IsController(x, obj)
    THEN CHOOSE x \in prev[o] : IsController(x, obj)
    ELSE "none"

\* actor has moved the API server to newLive; starts: with a step that
\* begins a call reading a cache that shows the live object.
AdopteeAfter(actor, newLive, starts) ==
    [p \in Owners |->
        IF p = actor
        THEN IF starts /\ Adoptable(p, live) # "none"
             THEN Adoptable(p, live) ELSE adoptee[p]
        ELSE IF newLive # live THEN "none" ELSE adoptee[p]]

\* A write by somebody else ends the quiet period of every call in flight.
LocAfter(o, newLive, mine) ==
    [p \in Owners |->
        IF p = o THEN mine
        ELSE IF newLive # live
        THEN [loc[p] EXCEPT !.fresh = FALSE, !.idem = FALSE]
        ELSE loc[p]]

\* The call of owner o returns with outcome r.
Finish(o, r, viol, paused, before, fresh, idem) ==
    LET ok == r.err = "none"
        mapped == IF ok /\ ~paused THEN mapConditions(o, r.actual[1])
                  ELSE ownerConds[o]
    IN  /\ Track(r.live, r.rvc)
        /\ last' = [owner |-> o, viol |-> viol, paused |-> paused,
                    seen |-> r.cur, before |-> before, after |-> r.live,
                    condBefore |-> ownerConds[o], condAfter |-> mapped,
                    ops |-> IF ok THEN Append(r.ops, "Probe") ELSE r.ops,
                    res |-> IF ok THEN "ok" ELSE r.err,
                    actual |-> IF ok THEN r.actual ELSE <<>>,
                    fresh |-> fresh, idem |-> idem]
        /\ loc' = LocAfter(o, r.live, Idle)
        /\ settled' =
             IF r.live # live
             THEN (IF ok /\ ~paused THEN {o} ELSE {})
             ELSE (IF ok /\ ~paused THEN settled \cup {o} ELSE settled \ {o})
        /\ ownerConds' = [ownerConds EXCEPT ![o] = mapped]
        /\ UNCHANGED <<outsidePhase, config, cache, lastTd>>

\* Mutant of PreflightOutcome: the violations are looked at after the
\* watch of the first object was registered.
PreflightOutcome_AfterWatch ==
    Outcome("PreflightError", Untouched, <<"Watch">>, <<>>, FALSE,
            NoObject, NoObject)

\* ReconcilePhase returns a PreflightError before it touches any object.
PreflightOutcome ==
    Outcome("PreflightError", Untouched, <<>>, <<>>, FALSE, NoObject, NoObject)

\* ReconcilePhase up to and including its first write to the API server.
\* Faults: what may cut the call short, drawn as its input: a preflight
\* violation, a failing Watch, a paused owner, a failing write.  Each of
\* them ends the call before the next one could matter.
ReconcilePhaseIn(o, Faults) ==
    /\ loc[o].pc = "idle"
    /\ \E fault \in Faults :
         LET viol == fault = "violation"
             watchErr == fault = "watch"
             paused == fault = "paused"
             fail == fault = "write"
             fresh == cache = live
             idem == fresh /\ o \in settled /\ ~paused
             r == IF viol THEN PreflightOutcome
                  ELSE reconcilePhaseObject(o, paused, watchErr, fail)
         IN  /\ adoptee' = AdopteeAfter(o, r.live, fresh)
             /\ IF r.pending
                THEN /\ Track(r.live, r.rvc)
                     /\ loc' = LocAfter(o, r.live,
                           [pc |-> "apply", cur |-> r.cur, upd |-> r.upd,
                            ops |-> r.ops, before |-> live, fresh |-> fresh,
                            idem |-> idem])
                     /\ settled' = IF r.live # live THEN {} ELSE settled
                     /\ UNCHANGED <<outsidePhase, config, cache, last, ownerConds, lastTd>>
                ELSE Finish(o, r, viol, paused, live, fresh, idem)

\* The rest of a call that wrote an ownership patch: the patcher.
ApplyAfterAdoptionIn(o, Faults) ==
    /\ loc[o].pc = "apply"
    /\ \E fault \in Faults \ {"violation", "watch", "paused"} :
         LET d == desiredObject(o)
             p == Patch(d.obj, loc[o].cur, loc[o].upd, fault = "write")
         IN  /\ adoptee' = AdopteeAfter(o, p.live, FALSE)
             /\ Finish(o, [p EXCEPT !.ops = loc[o].ops \o @], FALSE, FALSE,
                       loc[o].before, loc[o].fresh, loc[o].idem)

\* TeardownPhase of owner o.  Others: the results teardownPhaseObject has
\* for the objects that follow in the phase, drawn as an input.
TeardownPhaseIn(o, Faults, Others) ==
    /\ loc[o].pc = "idle"
    /\ \E fault \in Faults \ {"violation", "paused"}, others \in Others :
         LET r == teardownPhaseObject(o, fault = "watch", fault = "write")
             mine == IF r.err # "none" THEN "err"
                     ELSE IF r.done THEN "done" ELSE "notdone"
             results == IF mine = "err" THEN <<mine>> ELSE <<mine>> \o others
             t == TeardownResult(results)
             adoptedFrom ==
                 IF adoptee[o] # "none" /\ o \in settled THEN adoptee[o]
                 ELSE IF lastTd.owner = o /\ lastTd.after = live
                 THEN lastTd.adoptedFrom
                 ELSE "none"
         IN  /\ Track(r.live, r.rvc)
             /\ lastTd' = [owner |-> o, seen |-> r.cur, before |-> live,
                           after |-> r.live, ops |-> r.ops,
                           res |-> IF r.err # "none" THEN r.err
                                   ELSE IF t.err THEN "TeardownError"
                                   ELSE "ok",
                           done |-> t.cleanupDone, results |-> results,
                           adoptedFrom |-> adoptedFrom]
             /\ loc' = LocAfter(o, r.live, Idle)
             /\ settled' = IF r.live # live THEN {} ELSE settled \ {o}
             /\ adoptee' = [p \in Owners |->
                              IF p = o \/ r.live # live THEN "none"
                              ELSE adoptee[p]]
             /\ UNCHANGED <<outsidePhase, config, cache, last, ownerConds>>

\* ---------------------------------------------------------- environment
\* Somebody else creates the object, without owner or revision.
UserCreate ==
    /\ ~live.exists
    /\ rvc < MaxRV
    /\ LET w == Stored([NoObject EXCEPT !.exists = TRUE,
                            !.ns = TargetNamespace, !.labels = {UserLabel},
                            !.spec = "a"])
       IN  /\ Track(w.live, w.rvc)
           /\ loc' = LocAfter("none", w.live, Idle)
           /\ adoptee' = AdopteeAfter("none", w.live, FALSE)
    /\ settled' = {}
    /\ UNCHANGED <<outsidePhase, config, cache, last, ownerConds, lastTd>>

\* Somebody else edits the revision annotation of the object: removes it,
\* or writes something that is no number.
EditedAnnotations == {<<>>, <<"x">>, <<"1", "x">>}
UserAnnotate ==
    /\ live.exists
    /\ rvc < MaxRV
    /\ \E a \in EditedAnnotations :
         /\ a # live.ann
         /\ LET w == Stored([live EXCEPT !.ann = a])
            IN  /\ Track(w.live, w.rvc)
                /\ loc' = LocAfter("none", w.live, Idle)
                /\ adoptee' = AdopteeAfter("none", w.live, FALSE)
    /\ settled' = {}
    /\ UNCHANGED <<outsidePhase, config, cache, last, ownerConds, lastTd>>

\* The controller realising the object reports its status.
DownstreamStatus ==
    /\ live.exists
    /\ rvc < MaxRV
    /\ \E c \in {"True"} :
         /\ c # live.cond
         /\ LET w == Stored([live EXCEPT !.cond = c])
            IN  /\ Track(w.live, w.rvc)
                /\ loc' = LocAfter("none", w.live, Idle)
                /\ adoptee' = AdopteeAfter("none", w.live, FALSE)
    /\ settled' = {}
    /\ UNCHANGED <<outsidePhase, config, cache, last, ownerConds, lastTd>>

\* The informer of the dynamic cache catches up with the API server.
CacheSync ==
    /\ cache # live
    /\ cache' = live
    /\ UNCHANGED <<outsidePhase, config, live, rvc, loc, last, settled, prevCtrl, ownerConds,
                   lastTd, adoptee>>

\* ------------------------------------------------ template controller
\* ObjectTemplateSource: the sources a template owner may declare. A JSON
\* path is written as its tokens, names separated by ".".
MaxSources == 2
TemplateNamespaces == {"", "right-namespace"}  \* "" is ClusterObjectTemplate
SourceNamespaces == {"", "right-namespace", "wrong-namespace"}
SourceNames == {"cm", "secret"}
SourceKey == <<"data">>
Destinations == {<<"database">>, <<"database", ".", "name">>, <<"password">>}
Items == [key : {SourceKey}, destination : Destinations]

SeqsUpTo(S, n) == UNION {[1..k -> S] : k \in 0..n}

ObjectTemplateSource(Namespaces, Dests, maxItems) ==
    [name : SourceNames, namespace : Namespaces, optional : BOOLEAN,
     items : SeqsUpTo([key : {SourceKey}, destination : Dests], maxItems)
               \ {<<>>}]

\* The value a source object holds at SourceKey.
ValueOf(name) ==
    IF name = "cm" THEN "big-database" ELSE "super-secret-password"

\* strings.Split(path, "."), for paths whose names are not empty.
Split(path) == SelectSeq(path, LAMBDA t : t # ".")

IsPrefix(p, q) == Len(p) <= Len(q) /\ SubSeq(q, 1, Len(p)) = p

\* The source-value map, as the function from the paths of its leaves to
\* their values.
EmptyMap == [p \in {} |-> ""]

\* Mutant of NestedFieldNoCopy: a path that ends at a map is not found.
NestedFieldNoCopy_LeafOnly(m, path) ==
    IF \E q \in DOMAIN m : IsPrefix(q, path) /\ q # path
    THEN [found |-> FALSE, err |-> TRUE]
    ELSE [found |-> path \in DOMAIN m, err |-> FALSE]

\* unstructured.NestedFieldNoCopy: walking into a value that is no map is
\* an error; a path ending at a leaf or at a map is found.
NestedFieldNoCopy(m, path) ==
    IF \E q \in DOMAIN m : IsPrefix(q, path) /\ q # path
    THEN [found |-> FALSE, err |-> TRUE]
    ELSE [found |-> \E q \in DOMAIN m : IsPrefix(path, q), err |-> FALSE]

\* The part of a path below its first n names.
Below(path, n) == SubSeq(path, n + 1, Len(path))

\* unstructured.NestedFieldCopy: as NestedFieldNoCopy, with the value found
\* at the path: a leaf is the map from <<>> to its value, a map is the map
\* from the paths below to their leaves.
NestedFieldCopy(m, path) ==
    LET r == NestedFieldNoCopy(m, path)
        below == {q \in DOMAIN m : IsPrefix(path, q)}
    IN  [found |-> r.found, err |-> r.err,
         value |-> [v \in {Below(q, Len(path)) : q \in below} |->
                       m[path \o v]]]

\* unstructured.SetNestedField on a path that walks through maps only.
SetNestedField(m, value, path) ==
    [q \in {r \in DOMAIN m : ~IsPrefix(path, r)}
            \cup {path \o v : v \in DOMAIN value} |->
        IF IsPrefix(path, q) THEN value[Below(q, Len(path))] ELSE m[q]]

\* A source object: its name in the metadata, and its value at SourceKey
\* unless its content is empty.
SourceObject(name, content) ==
    [q \in {<<"metadata", "name">>}
            \cup (IF content = "full" THEN {SourceKey} ELSE {}) |->
        IF q = SourceKey THEN ValueOf(name) ELSE name]

\* Mutant of sourceItems: a destination that already holds a value is
\* written again.
RECURSIVE sourceItems(_, _, _, _)
sourceItems_Overwrite(items, name, content, m) ==
    IF items = <<>> THEN [err |-> "none", sources |-> m]
    ELSE LET value == NestedFieldCopy(SourceObject(name, content),
                                      Split(Head(items).key))
             dst == Split(Head(items).destination)
             dup == NestedFieldNoCopy(m, dst)
         IN  IF value.err
             THEN [err |-> "AccessorError", sources |-> m]
             ELSE IF ~value.found
             THEN [err |-> "BadRequest", sources |-> m]
             ELSE IF dup.err
             THEN [err |-> "AccessorError", sources |-> m]
             ELSE sourceItems(Tail(items), name, content,
                              SetNestedField(m, value.value, dst))

\* The items of one source: copy the value at the key to the destination.
sourceItems(items, name, content, m) ==
    IF items = <<>> THEN [err |-> "none", sources |-> m]
    ELSE LET value == NestedFieldCopy(SourceObject(name, content),
                                      Split(Head(items).key))
             dst == Split(Head(items).destination)
             dup == NestedFieldNoCopy(m, dst)
         IN  IF value.err
             THEN [err |-> "AccessorError", sources |-> m]
             ELSE IF ~value.found
             THEN [err |-> "BadRequest", sources |-> m]
             ELSE IF dup.err
             THEN [err |-> "AccessorError", sources |-> m]
             ELSE IF dup.found
             THEN [err |-> "DuplicateDestination", sources |-> m]
             ELSE sourceItems(Tail(items), name, content,
                              SetNestedField(m, value.value, dst))

\* at is the index of the source at which the call failed, 0 when none did.
NoValues == [err |-> "none", sources |-> EmptyMap, reads |-> <<>>,
             watched |-> {}, skipped |-> {}, at |-> 0]

Read(op, i, ns, name) == [op |-> op, i |-> i, namespace |-> ns, name |-> name]

\* The namespace a source is read in; "" when the switch ends in BadRequest.
SourceNamespace_DeclaredWins(ownerNamespace, src) ==
    IF src.namespace # "" THEN src.namespace ELSE ownerNamespace

SourceNamespace(ownerNamespace, src) ==
    IF ownerNamespace # "" /\ src.namespace # ""
       /\ ownerNamespace # src.namespace
    THEN ""
    ELSE IF ownerNamespace # "" THEN ownerNamespace ELSE src.namespace

\* The loop over the sources from the i-th on. honourOptional is FALSE for
\* GetValuesFromSources as written; TRUE skips an optional source that is
\* not found.
RECURSIVE valuesFromSources(_, _, _, _, _, _, _)
valuesFromSources(i, ownerNamespace, srcs, objs, fault, honourOptional, acc) ==
    IF i > Len(srcs) THEN acc
    ELSE
    LET src == srcs[i]
        ns == SourceNamespace(ownerNamespace, src)
        watch == Append(acc.reads, Read("Watch", i, ns, src.name))
        get == Append(watch, Read("Get", i, ns, src.name))
        got == [acc EXCEPT !.reads = get, !.watched = @ \cup {src.name}]
        it == sourceItems(src.items, src.name, objs[src.name], acc.sources)
    IN  IF ns = "" THEN [acc EXCEPT !.err = "BadRequest", !.at = i]
        ELSE IF fault = "WatchError"
        THEN [acc EXCEPT !.reads = watch, !.err = "WatchError", !.at = i]
        ELSE IF fault = "GetError"
        THEN [got EXCEPT !.err = "GetError", !.at = i]
        ELSE IF objs[src.name] = "absent"
        THEN IF honourOptional /\ src.optional
             THEN valuesFromSources(i + 1, ownerNamespace, srcs, objs, fault,
                      honourOptional, [got EXCEPT !.skipped = @ \cup {i}])
             ELSE [got EXCEPT !.err = "NotFound", !.at = i]
        ELSE IF it.err # "none"
        THEN [got EXCEPT !.err = it.err, !.sources = it.sources, !.at = i]
        ELSE valuesFromSources(i + 1, ownerNamespace, srcs, objs, fault,
                               honourOptional, [got EXCEPT !.sources = it.sources])

GetValuesFromSources(ownerNamespace, srcs, objs, fault) ==
    valuesFromSources(1, ownerNamespace, srcs, objs, fault, FALSE, NoValues)

\* The resolution of the sources by the templateReconciler.
ResolveSources(ownerNamespace, srcs, objs, fault) ==
    valuesFromSources(1, ownerNamespace, srcs, objs, fault, TRUE, NoValues)

\* The template owner as stored by the API server, and the derived object.
NoTemplate ==
    [exists |-> FALSE, deleting |-> FALSE, finalizer |-> FALSE,
     namespace |-> "", sources |-> <<>>]
NoPkg == [exists |-> FALSE, config |-> EmptyMap, stored |-> FALSE]
NoReconcile ==
    [build |-> "none", fault |-> "none", fetched |-> NoTemplate,
     objs |-> <<>>, pkgBefore |-> NoPkg, pkgAfter |-> NoPkg,
     templateAfter |-> NoTemplate, watchingAfter |-> {},
     ops |-> <<>>, err |-> "none", values |-> NoValues]

\* controllers.FreeCacheAndRemoveFinalizer: the finalizer is removed only
\* after Free returned; the API server drops an object that is being
\* deleted once its last finalizer is gone.
FreeCacheAndRemoveFinalizer(obj, srv, w, fault) ==
    IF fault = "FreeError"
    THEN [err |-> "FreeError", obj |-> obj, srv |-> srv, watching |-> w,
          ops |-> <<"Free">>]
    ELSE IF ~obj.finalizer
    THEN [err |-> "none", obj |-> obj, srv |-> srv, watching |-> {},
          ops |-> <<"Free">>]
    ELSE IF fault = "PatchError"
    THEN [err |-> "PatchError", obj |-> obj, srv |-> srv, watching |-> {},
          ops |-> <<"Free", "RemoveFinalizer">>]
    ELSE [err |-> "none", obj |-> [obj EXCEPT !.finalizer = FALSE],
          srv |-> [srv EXCEPT !.finalizer = FALSE,
                              !.exists = srv.exists /\ ~srv.deleting],
          watching |-> {}, ops |-> <<"Free", "RemoveFinalizer">>]

\* controllers.EnsureCachedFinalizer: a patch only when the object in hand
\* lacks the finalizer; the API server refuses a new finalizer on an object
\* that is gone or being deleted.
EnsureCachedFinalizer(obj, srv, fault) ==
    IF obj.finalizer
    THEN [err |-> "none", obj |-> obj, srv |-> srv, ops |-> <<>>]
    ELSE IF fault = "PatchError"
    THEN [err |-> "PatchError", obj |-> obj, srv |-> srv,
          ops |-> <<"AddFinalizer">>]
    ELSE IF ~srv.exists
    THEN [err |-> "NotFound", obj |-> obj, srv |-> srv,
          ops |-> <<"AddFinalizer">>]
    ELSE IF srv.deleting
    THEN [err |-> "Forbidden", obj |-> obj, srv |-> srv,
          ops |-> <<"AddFinalizer">>]
    ELSE [err |-> "none", obj |-> [obj EXCEPT !.finalizer = TRUE],
          srv |-> [srv EXCEPT !.finalizer = TRUE], ops |-> <<"AddFinalizer">>]

\* TemplatePackage: the rendered object carries the source values as its
\* configuration and nothing the API server adds.
TemplatePackage(sources) ==
    [exists |-> TRUE, config |-> sources, stored |-> FALSE]

ServerStore(pkg) == [pkg EXCEPT !.stored = TRUE]
DeepEqual(pkg, existing) == pkg = existing

ReadOps(reads) == [k \in 1..Len(reads) |-> reads[k].op]

Reconciled(err, srv, w, pkg, ops, values) ==
    [err |-> err, template |-> srv, watching |-> w, pkg |-> pkg,
     ops |-> ops, values |-> values]

\* Create or update of the rendered object, objecttemplate controller as of
\* the build that templates in Reconcile itself.
ConvergeInline(srv, w, cur, ops, values, fault) ==
    LET pkg == TemplatePackage(values.sources)
    IN  IF fault = "GetPkgError"
        THEN Reconciled("GetPkgError", srv, w, cur, Append(ops, "GetPkg"),
                        values)
        ELSE IF ~cur.exists
        THEN IF fault = "CreateError"
             THEN Reconciled("CreateError", srv, w, cur,
                             ops \o <<"GetPkg", "Create">>, values)
             ELSE Reconciled("NotFound", srv, w, ServerStore(pkg),
                             ops \o <<"GetPkg", "Create">>, values)
        ELSE IF ~DeepEqual(pkg, cur)
        THEN IF fault = "UpdateError"
             THEN Reconciled("UpdateError", srv, w, cur,
                             ops \o <<"GetPkg", "Update">>, values)
             ELSE Reconciled("none", srv, w, ServerStore(pkg),
                             ops \o <<"GetPkg", "Update">>, values)
        ELSE Reconciled("none", srv, w, cur, Append(ops, "GetPkg"), values)

\* Mutant of reconcileTemplateInline: Free is called for every owner.
reconcileTemplateInline_AlwaysFree(srv, w, objs, cur, fault) ==
    IF fault = "GetOwnerError"
    THEN Reconciled("GetOwnerError", srv, w, cur, <<>>, NoValues)
    ELSE IF ~srv.exists
    THEN Reconciled("none", srv, w, cur, <<>>, NoValues)
    ELSE
    LET f == FreeCacheAndRemoveFinalizer(srv, srv, w, fault)
        e == EnsureCachedFinalizer(f.obj, f.srv, fault)
        v == GetValuesFromSources(e.obj.namespace, e.obj.sources, objs, fault)
        w2 == f.watching \cup v.watched
        ops == f.ops \o e.ops \o ReadOps(v.reads)
    IN  IF f.err # "none"
        THEN Reconciled(f.err, f.srv, f.watching, cur, f.ops, NoValues)
        ELSE IF e.err # "none"
        THEN Reconciled(e.err, e.srv, f.watching, cur, f.ops \o e.ops,
                        NoValues)
        ELSE IF v.err # "none"
        THEN Reconciled(v.err, e.srv, w2, cur, ops, v)
        ELSE IF fault = "RenderError"
        THEN Reconciled("RenderError", e.srv, w2, cur, ops, v)
        ELSE ConvergeInline(e.srv, w2, cur, ops, v, fault)

\* GenericObjectTemplateController.Reconcile of the build that templates
\* in Reconcile itself: freeing the cache does not end the call.
reconcileTemplateInline(srv, w, objs, cur, fault) ==
    IF fault = "GetOwnerError"
    THEN Reconciled("GetOwnerError", srv, w, cur, <<>>, NoValues)
    ELSE IF ~srv.exists
    THEN Reconciled("none", srv, w, cur, <<>>, NoValues)
    ELSE
    LET f == IF srv.deleting
             THEN FreeCacheAndRemoveFinalizer(srv, srv, w, fault)
             ELSE [err |-> "none", obj |-> srv, srv |-> srv, watching |-> w,
                   ops |-> <<>>]
        e == EnsureCachedFinalizer(f.obj, f.srv, fault)
        v == GetValuesFromSources(e.obj.namespace, e.obj.sources, objs, fault)
        w2 == f.watching \cup v.watched
        ops == f.ops \o e.ops \o ReadOps(v.reads)
    IN  IF f.err # "none"
        THEN Reconciled(f.err, f.srv, f.watching, cur, f.ops, NoValues)
        ELSE IF e.err # "none"
        THEN Reconciled(e.err, e.srv, f.watching, cur, f.ops \o e.ops,
                        NoValues)
        ELSE IF v.err # "none"
        THEN Reconciled(v.err, e.srv, w2, cur, ops, v)
        ELSE IF fault = "RenderError"
        THEN Reconciled("RenderError", e.srv, w2, cur, ops, v)
        ELSE ConvergeInline(e.srv, w2, cur, ops, v, fault)

\* templateReconciler.Reconcile: resolve the sources, render, then create
\* the derived object or update it when it differs semantically.
templateReconciler_Reconcile(obj, srv, w, objs, cur, ops, fault) ==
    LET v == ResolveSources(obj.namespace, obj.sources, objs, fault)
        w2 == w \cup v.watched
        ops2 == ops \o ReadOps(v.reads)
        pkg == TemplatePackage(v.sources)
    IN  IF v.err # "none" THEN Reconciled(v.err, srv, w2, cur, ops2, v)
        ELSE IF fault = "RenderError"
        THEN Reconciled("RenderError", srv, w2, cur, ops2, v)
        ELSE IF fault = "GetPkgError"
        THEN Reconciled("GetPkgError", srv, w2, cur, Append(ops2, "GetPkg"), v)
        ELSE IF ~cur.exists
        THEN IF fault = "CreateError"
             THEN Reconciled("CreateError", srv, w2, cur,
                             ops2 \o <<"GetPkg", "Create">>, v)
             ELSE Reconciled("none", srv, w2, ServerStore(pkg),
                             ops2 \o <<"GetPkg", "Create">>, v)
        ELSE IF pkg.config # cur.config
        THEN IF fault = "UpdateError"
             THEN Reconciled("UpdateError", srv, w2, cur,
                             ops2 \o <<"GetPkg", "Update">>, v)
             ELSE Reconciled("none", srv, w2, ServerStore(pkg),
                             ops2 \o <<"GetPkg", "Update">>, v)
        ELSE Reconciled("none", srv, w2, cur, Append(ops2, "GetPkg"), v)

\* GenericObjectTemplateController.Reconcile of the build that hands the
\* templating to its reconcilers and writes the status afterwards.
reconcileTemplate(srv, w, objs, cur, fault) ==
    IF fault = "GetOwnerError"
    THEN Reconciled("GetOwnerError", srv, w, cur, <<>>, NoValues)
    ELSE IF ~srv.exists
    THEN Reconciled("none", srv, w, cur, <<>>, NoValues)
    ELSE IF srv.deleting
    THEN LET f == FreeCacheAndRemoveFinalizer(srv, srv, w, fault)
         IN  Reconciled(f.err, f.srv, f.watching, cur, f.ops, NoValues)
    ELSE
    LET e == EnsureCachedFinalizer(srv, srv, fault)
        r == templateReconciler_Reconcile(e.obj, e.srv, w, objs, cur, e.ops,
                                          fault)
    IN  IF e.err # "none"
        THEN Reconciled(e.err, e.srv, w, cur, e.ops, NoValues)
        ELSE IF r.err # "none" THEN r
        ELSE IF fault = "StatusError"
        THEN [r EXCEPT !.err = "StatusError",
                       !.ops = Append(@, "UpdateStatus")]
        ELSE [r EXCEPT !.ops = Append(@, "UpdateStatus")]

TemplateFaults ==
    {"none", "GetOwnerError", "FreeError", "PatchError", "WatchError",
     "GetError", "RenderError", "GetPkgError", "CreateError", "UpdateError",
     "StatusError"}

ReconcileDone(build, fault, r) ==
    /\ template' = r.template
    /\ watching' = r.watching
    /\ existingPkg' = r.pkg
    /\ lastRec' = [build |-> build, fault |-> fault, fetched |-> template,
                   objs |-> sourceObjs, pkgBefore |-> existingPkg,
                   pkgAfter |-> r.pkg, templateAfter |-> r.template,
                   watchingAfter |-> r.watching, ops |-> r.ops,
                   err |-> r.err, values |-> r.values]
    /\ UNCHANGED <<sourceObjs, outsideTemplate>>

ReconcileInlineIn(Faults) ==
    \E fault \in Faults :
        ReconcileDone("inline", fault,
            reconcileTemplateInline(template, watching, sourceObjs,
                                    existingPkg, fault))

ReconcileIn(Faults) ==
    \E fault \in Faults :
        ReconcileDone("reconcilers", fault,
            reconcileTemplate(template, watching, sourceObjs, existingPkg,
                              fault))

\* One call of GetValuesFromSources on its own, as the unit test makes it.
GetValuesFromSourcesIn(Faults) ==
    /\ lastRec.build = "none"
    /\ template.exists
    /\ \E fault \in Faults :
         LET v == GetValuesFromSources(template.namespace, template.sources,
                                       sourceObjs, fault)
         IN  ReconcileDone("GetValuesFromSources", fault,
                 Reconciled(v.err, template, watching \cup v.watched,
                            existingPkg, ReadOps(v.reads), v))

\* The user deletes the template owner: with the finalizer the API server
\* only sets the deletion timestamp.
DeleteTemplate ==
    /\ template.exists /\ ~template.deleting
    /\ template' = [template EXCEPT !.deleting = template.finalizer,
                                    !.exists = template.finalizer]
    /\ UNCHANGED <<watching, sourceObjs, existingPkg, lastRec, outsideTemplate>>

\* A source object appears in the cluster and in the dynamic cache.
SourceCreated ==
    \E n \in SourceNames :
        /\ sourceObjs[n] = "absent"
        /\ sourceObjs' = [sourceObjs EXCEPT ![n] = "full"]
        /\ UNCHANGED <<template, watching, existingPkg, lastRec, outsideTemplate>>

InitNoTemplate ==
    /\ template = NoTemplate
    /\ watching = {}
    /\ sourceObjs = [n \in SourceNames |-> "absent"]
    /\ existingPkg = NoPkg
    /\ lastRec = NoReconcile

\* ------------------------------------------- hosted cluster controller
\* The HostedCluster and the conditions in its status.
MaxConds == 2
HostedConditions ==
    [type : {"Available"}, status : {"True", "False"}]
      \cup [type : {"Progressing"}, status : {"True"}]
HostedConditionLists == SeqsUpTo(HostedConditions, MaxConds)
Images == {"image-a", "image-b"}

NoHostedCluster ==
    [exists |-> FALSE, name |-> "", namespace |-> "", uid |-> "",
     conds |-> <<>>]
NoPackage ==
    [exists |-> FALSE, name |-> <<>>, namespace |-> "", image |-> "",
     labels |-> {}, controller |-> "none"]
NoHostedReconcile ==
    [build |-> "none", fault |-> "none", fetched |-> NoHostedCluster,
     image |-> "", before |-> NoPackage, after |-> NoPackage,
     ops |-> <<>>, err |-> "none"]

RECURSIVE isHostedClusterReady(_)
\* isHostedClusterReady: the first Available condition decides.
isHostedClusterReady(conds) ==
    IF conds = <<>> THEN FALSE
    ELSE IF Head(conds).type = "Available"
    THEN Head(conds).status = "True"
    ELSE isHostedClusterReady(Tail(conds))

\* desiredPackage of the build that labels the Package for the dynamic
\* cache, with the reference setControllerReference appends.
desiredPackage(cluster, img) ==
    [exists |-> TRUE, name |-> <<cluster.name, "_remote_phase_manager">>,
     namespace |-> cluster.namespace, image |-> img,
     labels |-> {DynamicCacheLabel}, controller |-> cluster.uid]

\* desiredPackage of the build that checks the Available condition, with
\* the reference controllerutil.SetControllerReference sets.
desiredPackageUnlabelled(cluster, img) ==
    [exists |-> TRUE, name |-> <<cluster.name, "_remote_phase_manager">>,
     namespace |-> cluster.namespace, image |-> img,
     labels |-> {}, controller |-> cluster.uid]

Hosted(err, pkg, ops) == [err |-> err, package |-> pkg, ops |-> ops]

\* Get of the existing Package by the key of the desired one, then Create
\* when it is not found. The cluster holds at most the Package of that key.
createIfAbsent(desired, cur, fault) ==
    IF fault = "GetPackageError"
    THEN Hosted("GetPackageError", cur, <<"GetPackage">>)
    ELSE IF cur.exists /\ cur.name = desired.name
            /\ cur.namespace = desired.namespace
    THEN Hosted("none", cur, <<"GetPackage">>)
    ELSE IF fault = "CreateError"
    THEN Hosted("CreateError", cur, <<"GetPackage", "Create">>)
    ELSE Hosted("none", desired, <<"GetPackage", "Create">>)

\* HostedClusterController.Reconcile of the build without the readiness
\* check.
reconcileHostedCluster(cluster, img, cur, fault) ==
    IF fault = "GetOwnerError" THEN Hosted("GetOwnerError", cur, <<>>)
    ELSE IF ~cluster.exists THEN Hosted("none", cur, <<>>)
    ELSE createIfAbsent(desiredPackage(cluster, img), cur, fault)

\* HostedClusterController.Reconcile of the build with the readiness check.
reconcileHostedClusterReady(cluster, img, cur, fault) ==
    IF fault = "GetOwnerError" THEN Hosted("GetOwnerError", cur, <<>>)
    ELSE IF ~cluster.exists THEN Hosted("none", cur, <<>>)
    ELSE IF fault = "ConditionsError" THEN Hosted("ConditionsError", cur, <<>>)
    ELSE IF ~isHostedClusterReady(cluster.conds) THEN Hosted("none", cur, <<>>)
    ELSE IF fault = "ReferenceError" THEN Hosted("ReferenceError", cur, <<>>)
    ELSE createIfAbsent(desiredPackageUnlabelled(cluster, img), cur, fault)

HostedFaults ==
    {"none", "GetOwnerError", "ConditionsError", "ReferenceError",
     "GetPackageError", "CreateError"}

HostedDone(build, fault, r) ==
    /\ package' = r.package
    /\ lastHosted' = [build |-> build, fault |-> fault,
                      fetched |-> hostedCluster, image |-> image,
                      before |-> package, after |-> r.package,
                      ops |-> r.ops, err |-> r.err]
    /\ UNCHANGED <<hostedCluster, image, outsideHosted>>

ReconcileHostedCluster ==
    \E fault \in HostedFaults \ {"ConditionsError", "ReferenceError"} :
        HostedDone("labelled", fault,
            reconcileHostedCluster(hostedCluster, image, package, fault))

ReconcileHostedClusterReady ==
    \E fault \in HostedFaults :
        HostedDone("ready", fault,
            reconcileHostedClusterReady(hostedCluster, image, package, fault))

\* The hosting operator reports another status: it adds a condition or
\* removes the first one.
HostedClusterStatus ==
    /\ hostedCluster.exists
    /\ \E conds \in HostedConditionLists :
         /\ \/ /\ conds # <<>>
               /\ hostedCluster.conds = SubSeq(conds, 1, Len(conds) - 1)
            \/ /\ hostedCluster.conds # <<>>
               /\ conds = Tail(hostedCluster.conds)
         /\ hostedCluster' = [hostedCluster EXCEPT !.conds = conds]
    /\ UNCHANGED <<package, image, lastHosted, outsideHosted>>

\* The HostedCluster is deleted.
HostedClusterDeleted ==
    /\ hostedCluster.exists
    /\ hostedCluster' = NoHostedCluster
    /\ UNCHANGED <<package, image, lastHosted, outsideHosted>>

\* The garbage collector removes a Package whose controller is gone, or a
\* user deletes the Package.
PackageDeleted ==
    /\ package.exists
    /\ package' = NoPackage
    /\ UNCHANGED <<hostedCluster, image, lastHosted, outsideHosted>>

InitNoHostedCluster ==
    /\ hostedCluster = NoHostedCluster
    /\ package = NoPackage
    /\ image = ""
    /\ lastHosted = NoHostedReconcile

\* --------------------------------------------------- condition mapping
\* The conditions of the actual object, the mappings declared in the
\* phase, and the conditions of the owner, with every field mapConditions
\* reads or writes.
MaxGen == 2
SourceTypes == {"Available", "Ready"}
DestinationTypes == {"pko/Available", "pko/Ready"}
ObjectConditions ==
    [type : SourceTypes, status : {"True", "False"},
     observedGeneration : 0..MaxGen]
ConditionMappings ==
    {<<>>,
     <<[sourceType |-> "Available", destinationType |-> "pko/Available"]>>,
     <<[sourceType |-> "Available", destinationType |-> "pko/Ready"],
       [sourceType |-> "Available", destinationType |-> "pko/Available"]>>,
     <<[sourceType |-> "Available", destinationType |-> "pko/Available"],
       [sourceType |-> "Ready", destinationType |-> "pko/Available"]>>}

\* conditionTypeMap: a later mapping of a source type replaces an earlier.
RECURSIVE conditionTypeMap(_)
conditionTypeMap(conditionMappings) ==
    IF conditionMappings = <<>> THEN [t \in {} |-> ""]
    ELSE LET n == Len(conditionMappings)
             m == conditionMappings[n]
             rest == conditionTypeMap(SubSeq(conditionMappings, 1, n - 1))
         IN [t \in DOMAIN rest \cup {m.sourceType} |->
                IF t = m.sourceType THEN m.destinationType ELSE rest[t]]

\* meta.FindStatusCondition: the index of the first condition of the type,
\* 0 when there is none.
FindStatusCondition(conditions, type) ==
    LET found == {i \in 1..Len(conditions) : conditions[i].type = type}
    IN IF found = {} THEN 0
       ELSE CHOOSE i \in found : \A j \in found : i <= j

\* Mutant of SetStatusCondition: the condition is appended even when the
\* list holds one of its type.
SetStatusCondition_Append(conditions, newCondition) ==
    Append(conditions, newCondition)

\* meta.SetStatusCondition: append the condition when the list holds none
\* of its type, else overwrite status and observedGeneration in place.
SetStatusCondition(conditions, newCondition) ==
    LET i == FindStatusCondition(conditions, newCondition.type)
    IN IF i = 0 THEN Append(conditions, newCondition)
       ELSE [conditions EXCEPT ![i] = newCondition]

\* The loop of mapConditions over the object's conditions, from index i.
RECURSIVE mapEach(_, _, _, _, _, _)
\* Mutant of mapEach: outdated conditions are mapped as well.
mapEach_Outdated(i, objectConditions, generation, typeMap, ownerGeneration, ownerConditions) ==
    IF i > Len(objectConditions) THEN ownerConditions
    ELSE LET condition == objectConditions[i]
         IN IF condition.type \notin DOMAIN typeMap
            THEN mapEach(i + 1, objectConditions, generation, typeMap,
                         ownerGeneration, ownerConditions)
            ELSE mapEach(i + 1, objectConditions, generation, typeMap,
                         ownerGeneration,
                         SetStatusCondition(ownerConditions,
                             [type |-> typeMap[condition.type],
                              status |-> condition.status,
                              observedGeneration |-> ownerGeneration]))

mapEach(i, objectConditions, generation, typeMap, ownerGeneration, ownerConditions) ==
    IF i > Len(objectConditions) THEN ownerConditions
    ELSE LET condition == objectConditions[i]
         IN IF /\ condition.observedGeneration # 0
               /\ condition.observedGeneration # generation
            THEN mapEach(i + 1, objectConditions, generation, typeMap,
                         ownerGeneration, ownerConditions)
            ELSE IF condition.type \notin DOMAIN typeMap
            THEN mapEach(i + 1, objectConditions, generation, typeMap,
                         ownerGeneration, ownerConditions)
            ELSE mapEach(i + 1, objectConditions, generation, typeMap,
                         ownerGeneration,
                         SetStatusCondition(ownerConditions,
                             [type |-> typeMap[condition.type],
                              status |-> condition.status,
                              observedGeneration |-> ownerGeneration]))

\* mapConditions with the fields of the conditions: the owner's conditions
\* after the call and the error it returns. in.raw is "absent" when the
\* object has no status.conditions, "malformed" when they do not decode
\* into conditions.
mapConditionsOf(in) ==
    IF in.conditionMappings = <<>>
    THEN [conditions |-> in.ownerConditions, err |-> "none"]
    ELSE IF in.raw = "absent"
    THEN [conditions |-> in.ownerConditions, err |-> "none"]
    ELSE IF in.raw = "malformed"
    THEN [conditions |-> in.ownerConditions, err |-> "DecodeError"]
    ELSE [conditions |->
             mapEach(1, in.conditions, in.generation,
                     conditionTypeMap(in.conditionMappings),
                     in.ownerGeneration, in.ownerConditions),
          err |-> "none"]

NoMapping == [called |-> FALSE, conditions |-> <<>>, err |-> "none"]

MapConditionsCall ==
    /\ ~mapOut.called
    /\ mapOut' = [called |-> TRUE] @@ mapConditionsOf(mapIn)
    /\ UNCHANGED <<mapIn, outsideConditions>>

InitNoMapping ==
    /\ mapIn = [conditionMappings |-> <<>>, raw |-> "absent",
                conditions |-> <<>>,
                generation |-> 0, ownerGeneration |-> 1,
                ownerConditions |-> <<>>]
    /\ mapOut = NoMapping

\* ------------------------------------------------- objects of a phase
\* ReconcilePhase over a phase of several objects. What reconcileObject
\* finds and does for one object is an input of the loop: outcome says
\* which way the object takes through reconcilePhaseObject, status is the
\* Available condition the object reports (mapped to pko/Available), probe
\* the answer of the prober.
MaxObjects == 2
ObjectOutcomes ==
    {"WatchError", "GetError", "Absent", "CreateError", "CheckError",
     "Present", "ApplyError"}
PhaseObjects ==
    [outcome : ObjectOutcomes, status : {"none", "True"}, probe : BOOLEAN]
PhaseNames == {"", "deploy"}
AvailableMapping ==
    <<[sourceType |-> "Available", destinationType |-> "pko/Available"]>>

Step(err, ops) == [err |-> err, ops |-> ops]

\* Mutant of objectCalls: a paused owner creates the object it does not
\* find.
objectCalls_PausedCreates(phaseObject, paused) ==
    IF phaseObject.outcome = "WatchError"
    THEN Step("WatchError", <<"Watch">>)
    ELSE IF paused /\ phaseObject.outcome \notin {"Absent", "CreateError"}
    THEN IF phaseObject.outcome = "GetError"
         THEN Step("PausedLookupError", <<"Watch", "Get">>)
         ELSE Step("none", <<"Watch", "Get">>)
    ELSE IF phaseObject.outcome = "GetError"
    THEN Step("GetError", <<"Watch", "Get">>)
    ELSE IF phaseObject.outcome = "Absent"
    THEN Step("none", <<"Watch", "Get", "Create">>)
    ELSE IF phaseObject.outcome = "CreateError"
    THEN Step("CreateError", <<"Watch", "Get", "Create">>)
    ELSE IF phaseObject.outcome = "CheckError"
    THEN Step("ObjectNotOwnedByPreviousRevisionError", <<"Watch", "Get">>)
    ELSE IF phaseObject.outcome = "ApplyError"
    THEN Step("ApplyError", <<"Watch", "Get", "Apply">>)
    ELSE Step("none", <<"Watch", "Get", "Apply">>)

\* The calls reconcilePhaseObject makes for one object, and its error.
objectCalls(phaseObject, paused) ==
    IF phaseObject.outcome = "WatchError"
    THEN Step("WatchError", <<"Watch">>)
    ELSE IF paused
    THEN IF phaseObject.outcome \in {"GetError", "Absent", "CreateError"}
         THEN Step("PausedLookupError", <<"Watch", "Get">>)
         ELSE Step("none", <<"Watch", "Get">>)
    ELSE IF phaseObject.outcome = "GetError"
    THEN Step("GetError", <<"Watch", "Get">>)
    ELSE IF phaseObject.outcome = "Absent"
    THEN Step("none", <<"Watch", "Get", "Create">>)
    ELSE IF phaseObject.outcome = "CreateError"
    THEN Step("CreateError", <<"Watch", "Get", "Create">>)
    ELSE IF phaseObject.outcome = "CheckError"
    THEN Step("ObjectNotOwnedByPreviousRevisionError", <<"Watch", "Get">>)
    ELSE IF phaseObject.outcome = "ApplyError"
    THEN Step("ApplyError", <<"Watch", "Get", "Apply">>)
    ELSE Step("none", <<"Watch", "Get", "Apply">>)

\* The conditions of the owner after reconcilePhaseObject has gone through
\* a non-paused owner's object without error.
conditionsAfter(phaseObject, ownerConditions) ==
    mapConditionsOf(
        [conditionMappings |-> AvailableMapping,
         raw |-> IF phaseObject.status = "none" THEN "absent" ELSE "exist",
         conditions |->
            IF phaseObject.status = "none" THEN <<>>
            ELSE <<[type |-> "Available", status |-> phaseObject.status,
                    observedGeneration |-> 0]>>,
         generation |-> 1, ownerGeneration |-> 1,
         ownerConditions |-> ownerConditions]).conditions

Tag(i, ops) == [k \in 1..Len(ops) |-> [object |-> i, op |-> ops[k]]]

\* ProbingResult and its zero value; IsZero.
ProbingResult(phaseName, failedProbes) ==
    [PhaseName |-> phaseName, FailedProbes |-> failedProbes]
ZeroProbingResult == ProbingResult("", <<>>)
IsZero(e) == e.PhaseName = "" /\ e.FailedProbes = <<>>

\* res is set when ReconcilePhase returns.
PhaseResult(err, at, ops, actual, failed, conditions) ==
    [called |-> TRUE, err |-> err, at |-> at, ops |-> ops,
     actualObjects |-> actual, failedProbes |-> failed,
     conditions |-> conditions, res |-> ZeroProbingResult]

RECURSIVE phaseLoop(_, _, _, _)
\* Mutant of phaseLoop: an object that fails is skipped and the loop goes
\* on with the next one.
phaseLoop_SkipFailed(i, objects, paused, acc) ==
    IF i > Len(objects) THEN acc
    ELSE LET c == objectCalls(objects[i], paused)
             ops == acc.ops \o Tag(i, c.ops)
         IN  IF c.err # "none"
             THEN phaseLoop(i + 1, objects, paused,
                      [acc EXCEPT !.err = c.err, !.at = i, !.ops = ops])
             ELSE phaseLoop(i + 1, objects, paused,
                      PhaseResult("none", 0,
                          ops \o Tag(i, <<"Probe">>),
                          Append(acc.actualObjects, i),
                          IF objects[i].probe THEN acc.failedProbes
                          ELSE Append(acc.failedProbes, i),
                          IF paused THEN acc.conditions
                          ELSE conditionsAfter(objects[i], acc.conditions)))

\* The loop of ReconcilePhase over phase.Objects, from object i.
phaseLoop(i, objects, paused, acc) ==
    IF i > Len(objects) THEN acc
    ELSE LET c == objectCalls(objects[i], paused)
             ops == acc.ops \o Tag(i, c.ops)
         IN  IF c.err # "none"
             THEN PhaseResult(c.err, i, ops, <<>>, <<>>, acc.conditions)
             ELSE phaseLoop(i + 1, objects, paused,
                      PhaseResult("none", 0,
                          ops \o Tag(i, <<"Probe">>),
                          Append(acc.actualObjects, i),
                          IF objects[i].probe THEN acc.failedProbes
                          ELSE Append(acc.failedProbes, i),
                          IF paused THEN acc.conditions
                          ELSE conditionsAfter(objects[i], acc.conditions)))

\* Mutant of probingResultOf: the result of a phase with failed probes
\* does not name the phase.
probingResultOf_WithoutPhase(phaseName, r) ==
    IF r.err = "none" /\ Len(r.failedProbes) > 0
    THEN ProbingResult("", r.failedProbes)
    ELSE ZeroProbingResult

\* The ProbingResult ReconcilePhase returns after the loop ended as r.
probingResultOf(phaseName, r) ==
    IF r.err = "none" /\ Len(r.failedProbes) > 0
    THEN ProbingResult(phaseName, r.failedProbes)
    ELSE ZeroProbingResult

\* ReconcilePhase: preflight, then the loop.
reconcilePhaseOf(in) ==
    IF in.violations
    THEN PhaseResult("PreflightError", 0, <<>>, <<>>, <<>>,
                     in.ownerConditions)
    ELSE LET r == phaseLoop(1, in.objects, in.paused,
                      PhaseResult("none", 0, <<>>, <<>>, <<>>,
                                  in.ownerConditions))
         IN  [r EXCEPT !.res = probingResultOf(in.name, r)]

NoPhaseResult ==
    [called |-> FALSE, err |-> "none", at |-> 0, ops |-> <<>>,
     actualObjects |-> <<>>, failedProbes |-> <<>>, conditions |-> <<>>,
     res |-> ZeroProbingResult]

ReconcilePhaseObjects ==
    /\ ~phaseOut.called
    /\ phaseOut' = reconcilePhaseOf(phaseIn)
    /\ UNCHANGED <<phaseIn, outsideLoop>>

InitNoPhaseObjects ==
    /\ phaseIn = [name |-> "", violations |-> FALSE, paused |-> FALSE,
                  objects |-> <<>>, ownerConditions |-> <<>>]
    /\ phaseOut = NoPhaseResult

\* ------------------------------------------------- phase of a Package
\* The condition types of a Package and the conditions a status may hold,
\* at most one of each type.
PackageConditionTypes == {"Invalid", "Unpacked", "Progressing", "Available"}
PackageConditions ==
    [type : PackageConditionTypes, status : {"True", "False", "Unknown"}]
MaxPackageConds == 3
PackageConditionLists ==
    {c \in SeqsUpTo(PackageConditions, MaxPackageConds) :
        \A i, j \in DOMAIN c : c[i].type = c[j].type => i = j}

\* meta.IsStatusConditionTrue
IsStatusConditionTrue(conditions, type) ==
    LET i == FindStatusCondition(conditions, type)
    IN  i # 0 /\ conditions[i].status = "True"

\* Mutant of updatePackagePhase: Available is looked at before
\* Progressing.
updatePackagePhase_AvailableFirst(conditions) ==
    IF IsStatusConditionTrue(conditions, "Invalid") THEN "Invalid"
    ELSE IF FindStatusCondition(conditions, "Unpacked") = 0 THEN "Unpacking"
    ELSE IF IsStatusConditionTrue(conditions, "Available") THEN "Available"
    ELSE IF IsStatusConditionTrue(conditions, "Progressing") THEN "Progressing"
    ELSE "NotReady"

\* updatePackagePhase: the phase set from the conditions.
updatePackagePhase(conditions) ==
    IF IsStatusConditionTrue(conditions, "Invalid") THEN "Invalid"
    ELSE IF FindStatusCondition(conditions, "Unpacked") = 0 THEN "Unpacking"
    ELSE IF IsStatusConditionTrue(conditions, "Progressing") THEN "Progressing"
    ELSE IF IsStatusConditionTrue(conditions, "Available") THEN "Available"
    ELSE "NotReady"

\* GenericPackage.UpdatePhase on a Package whose phase is not set yet.
UpdatePhase ==
    /\ pkgPhase = ""
    /\ pkgPhase' = updatePackagePhase(pkgConds)
    /\ UNCHANGED <<pkgConds, outsidePackage>>

InitNoPackagePhase ==
    /\ pkgConds = <<>>
    /\ pkgPhase = ""

\* ------------------------------------------------------ patcher calls
\* One call of defaultPatcher.Patch on its own: the desired object of an
\* owner, which may declare a status, the object read from the cache, and
\* the copy of it that reconcileObject may have edited for an adoption.
NoPatch ==
    [called |-> FALSE, body |-> NoObject, ops |-> <<>>, err |-> "none",
     before |-> NoObject, after |-> NoObject]

PatchCall ==
    /\ ~patchOut.called
    /\ \E fail \in BOOLEAN :
         LET p == Patch(patchIn.desiredObj, patchIn.currentObj,
                        patchIn.updatedObj, fail)
         IN  /\ patchOut' =
                  [called |-> TRUE,
                   body |-> IF p.ops = <<>> THEN NoObject
                            ELSE PatchBody(patchIn.desiredObj,
                                           patchIn.updatedObj),
                   ops |-> p.ops, err |-> p.err,
                   before |-> live, after |-> p.live]
             /\ live' = p.live
             /\ rvc' = p.rvc
    /\ UNCHANGED <<patchIn, outsidePatcher, config, cache, loc, last, settled,
                   prevCtrl, ownerConds, lastTd, adoptee>>

InitNoPatch ==
    /\ patchIn = [desiredObj |-> NoObject, currentObj |-> NoObject,
                  updatedObj |-> NoObject]
    /\ patchOut = NoPatch

\* ------------------------------------------------------ specifications
\* Previous revisions never carry a higher revision than the owner naming
\* them; the cluster starts without the object.
InitPhase ==
    /\ rev \in [Owners -> 1..MaxRev]
    /\ prev \in [Owners -> SUBSET Owners]
    /\ \A o \in Owners :
         o \notin prev[o] /\ \A p \in prev[o] : rev[p] <= rev[o]
    /\ live = NoObject
    /\ cache = NoObject
    /\ rvc = 0
    /\ loc = [o \in Owners |-> Idle]
    /\ last = NoCall
    /\ settled = {}
    /\ prevCtrl = "none"
    /\ ownerConds = [o \in Owners |-> "none"]
    /\ adoptee = [o \in Owners |-> "none"]
    /\ lastTd = NoTeardown

InitCluster ==
    /\ InitPhase /\ InitNoTemplate /\ InitNoHostedCluster
    /\ InitNoPackagePhase
    /\ InitNoMapping /\ InitNoPhaseObjects /\ InitNoPatch

NoRemotes == [o \in Owners |-> {}]
\* Results of the other objects of a phase: none, or one object.
OtherResults == {<<>>, <<"done">>, <<"notdone">>, <<"err">>}
NoFaults == {"none"}
AllFaults == {"none", "violation", "watch", "paused", "write"}

\* Three revisions reconcile the same object concurrently; the adoption
\* override is unset and no call is cut short by a fault.
Init ==
    /\ InitCluster
    /\ remote = NoRemotes
    /\ ownerNs = "ns1"
    /\ environ = {}

ReconcilePhase(o) == ReconcilePhaseIn(o, NoFaults)
ApplyAfterAdoption(o) == ApplyAfterAdoptionIn(o, NoFaults)

Next ==
    \/ \E o \in Owners : ReconcilePhase(o)
    \/ \E o \in Owners : ApplyAfterAdoption(o)
    \/ UserCreate
    \/ CacheSync

Spec == Init /\ [][Next]_vars

\* Two revisions X and Y reconcile, with the adoption override unset; Z is
\* a revision that no longer reconciles, whose phase may have been handed
\* to the remote phase X.  Every other input of a call is drawn freely:
\* owner scope, preflight violations, pauses, failing watches and writes,
\* and the status the downstream controller reports.
CallOwners == {"X", "Y"}
InitCalls ==
    /\ InitCluster
    /\ prev["X"] = {} /\ prev["Z"] = {}
    /\ remote \in [Owners -> SUBSET {"X"}]
    /\ remote["X"] = {} /\ remote["Y"] = {}
    /\ rev["Z"] = IF remote["Z"] = {} THEN 1 ELSE rev["X"]
    /\ ownerNs \in OwnerNamespaces
    /\ environ = {}

ReconcilePhaseCall(o) == ReconcilePhaseIn(o, AllFaults)
ApplyAfterAdoptionCall(o) == ApplyAfterAdoptionIn(o, AllFaults)

NextCalls ==
    \/ \E o \in CallOwners : ReconcilePhaseCall(o)
    \/ \E o \in CallOwners : ApplyAfterAdoptionCall(o)
    \/ UserCreate
    \/ DownstreamStatus
    \/ CacheSync

SpecCalls == InitCalls /\ [][NextCalls]_vars

\* Two revisions with the adoption override set or unset, no faults.
InitForce ==
    /\ InitCluster
    /\ prev["X"] = {} /\ prev["Z"] = {} /\ prev["Y"] \subseteq {"X"}
    /\ rev["Z"] = 1
    /\ remote = NoRemotes
    /\ ownerNs = "ns1"
    /\ environ \in Environments

ReconcilePhaseForce(o) == ReconcilePhaseIn(o, NoFaults)
ApplyAfterAdoptionForce(o) == ApplyAfterAdoptionIn(o, NoFaults)

NextForce ==
    \/ \E o \in CallOwners : ReconcilePhaseForce(o)
    \/ \E o \in CallOwners : ApplyAfterAdoptionForce(o)
    \/ UserCreate
    \/ CacheSync

SpecForce == InitForce /\ [][NextForce]_vars

\* Revision 1 and revision 2 with the adoption override set or unset, no
\* faults; the revision annotation of the object may be edited by somebody else.
InitAnnotation ==
    /\ InitCluster
    /\ rev = [o \in Owners |-> IF o = "Y" THEN 2 ELSE 1]
    /\ prev["X"] = {} /\ prev["Z"] = {} /\ prev["Y"] \subseteq {"X"}
    /\ remote = NoRemotes
    /\ ownerNs = "ns1"
    /\ environ \in {{}, {"PKO_FORCE_ADOPTION"}}

ReconcilePhaseAnnotated(o) == ReconcilePhaseIn(o, NoFaults)
ApplyAfterAdoptionAnnotated(o) == ApplyAfterAdoptionIn(o, NoFaults)

NextAnnotation ==
    \/ \E o \in CallOwners : ReconcilePhaseAnnotated(o)
    \/ \E o \in CallOwners : ApplyAfterAdoptionAnnotated(o)
    \/ UserAnnotate
    \/ CacheSync

SpecAnnotation == InitAnnotation /\ [][NextAnnotation]_vars

\* Two revisions reconcile and tear down their phase, with the adoption
\* override unset and no call cut short by a fault.
InitTeardown ==
    /\ InitCluster
    /\ prev["X"] = {} /\ prev["Z"] = {} /\ prev["Y"] \subseteq {"X"}
    /\ rev["Z"] = 1
    /\ remote = NoRemotes
    /\ ownerNs = "ns1"
    /\ environ = {}

ReconcilePhaseTd(o) == ReconcilePhaseIn(o, NoFaults)
ApplyAfterAdoptionTd(o) == ApplyAfterAdoptionIn(o, NoFaults)
TeardownPhase(o) == TeardownPhaseIn(o, NoFaults, {<<>>})

NextTeardown ==
    \/ \E o \in CallOwners : ReconcilePhaseTd(o)
    \/ \E o \in CallOwners : ApplyAfterAdoptionTd(o)
    \/ \E o \in CallOwners : TeardownPhase(o)
    \/ UserCreate
    \/ CacheSync

SpecTeardown == InitTeardown /\ [][NextTeardown]_vars

\* Revision 1 and its successor, revision 2, reconcile and tear down.  A
\* TeardownPhase may find its watch or its write failing, and its phase may
\* hold a second object.
InitTeardownCalls ==
    /\ InitCluster
    /\ rev = [o \in Owners |-> IF o = "Y" THEN 2 ELSE 1]
    /\ prev = [o \in Owners |-> IF o = "Y" THEN {"X"} ELSE {}]
    /\ remote = NoRemotes
    /\ ownerNs = "ns1"
    /\ environ = {}

ReconcilePhaseTdCall(o) == ReconcilePhaseIn(o, NoFaults)
ApplyAfterAdoptionTdCall(o) == ApplyAfterAdoptionIn(o, NoFaults)
TeardownPhaseCall(o) == TeardownPhaseIn(o, AllFaults, OtherResults)

NextTeardownCalls ==
    \/ \E o \in CallOwners : ReconcilePhaseTdCall(o)
    \/ \E o \in CallOwners : ApplyAfterAdoptionTdCall(o)
    \/ \E o \in CallOwners : TeardownPhaseCall(o)
    \/ CacheSync

SpecTeardownCalls == InitTeardownCalls /\ [][NextTeardownCalls]_vars

\* Two revisions reconcile until one of them is torn down.  From then on
\* nobody creates the object; TeardownPhase is called again for as long as
\* it has not returned done=true; a write of it may fail, but not for
\* ever; the cache catches up in the end.  The tear-down begins while the
\* API server has a resource version left to hand out.
TeardownBegun == lastTd.owner # "none"

ReconcilePhaseBefore(o) == ~TeardownBegun /\ ReconcilePhaseIn(o, NoFaults)
ApplyAfterAdoptionBefore(o) == ApplyAfterAdoptionIn(o, NoFaults)

TeardownDue(o) ==
    \/ /\ ~TeardownBegun
       /\ rvc < MaxRV
       /\ \A p \in Owners : loc[p].pc = "idle"
    \/ lastTd.owner = o /\ ~lastTd.done

TeardownRetry(o) == TeardownDue(o) /\ TeardownPhaseIn(o, NoFaults, {<<>>})
TeardownFails(o) == TeardownDue(o) /\ TeardownPhaseIn(o, {"write"}, {<<>>})

NextTeardownLive ==
    \/ \E o \in CallOwners : ReconcilePhaseBefore(o)
    \/ \E o \in CallOwners : ApplyAfterAdoptionBefore(o)
    \/ \E o \in CallOwners : TeardownRetry(o)
    \/ \E o \in CallOwners : TeardownFails(o)
    \/ CacheSync

SpecTeardownLive ==
    /\ InitTeardown
    /\ [][NextTeardownLive]_vars
    /\ WF_vars(CacheSync)
    /\ \A o \in CallOwners : WF_vars(TeardownRetry(o))

\* ------------------------------------- template controller, specifications
\* The phase reconciler stands still while the template controller runs.
InitPhaseIdle ==
    /\ InitPhase
    /\ rev = [o \in Owners |-> 1]
    /\ prev = [o \in Owners |-> {}]
    /\ remote = NoRemotes
    /\ ownerNs = "ns1"
    /\ environ = {}

\* One namespaced template owner whose sources declare no namespace and
\* hold one item each, the Secret being optional and the ConfigMap not;
\* both builds of the controller reconcile it, any call may be cut short by
\* a fault, the user may delete the owner and source objects may appear.
TemplateSources ==
    {s \in ObjectTemplateSource({""}, {<<"database">>, <<"password">>}, 1) :
        s.optional <=> s.name = "secret"}
InitTemplate ==
    /\ InitPhaseIdle
    /\ template \in
         [exists : {TRUE}, deleting : {FALSE}, finalizer : {FALSE},
          namespace : {"right-namespace"},
          sources : SeqsUpTo(TemplateSources, MaxSources)]
    /\ watching = {}
    /\ sourceObjs \in [SourceNames -> {"absent", "full"}]
    /\ existingPkg = NoPkg
    /\ lastRec = NoReconcile
    /\ InitNoHostedCluster
    /\ InitNoPackagePhase
    /\ InitNoMapping
    /\ InitNoPhaseObjects
    /\ InitNoPatch

ReconcileInline == ReconcileInlineIn(TemplateFaults)
Reconcile == ReconcileIn(TemplateFaults)

NextTemplate ==
    \/ ReconcileInline
    \/ Reconcile
    \/ DeleteTemplate
    \/ SourceCreated

SpecTemplate == InitTemplate /\ [][NextTemplate]_vars

\* GetValuesFromSources on every template owner whose sources hold one
\* item each, and on every content of the source objects.
SourceContents == {"absent", "empty", "full"}
InitSources ==
    /\ InitPhaseIdle
    /\ template \in
         [exists : {TRUE}, deleting : {FALSE}, finalizer : {TRUE},
          namespace : TemplateNamespaces,
          sources : SeqsUpTo(ObjectTemplateSource(SourceNamespaces,
                        Destinations, 1), MaxSources)]
    /\ watching = {}
    /\ sourceObjs \in [SourceNames -> SourceContents]
    /\ existingPkg = NoPkg
    /\ lastRec = NoReconcile
    /\ InitNoHostedCluster
    /\ InitNoPackagePhase
    /\ InitNoMapping
    /\ InitNoPhaseObjects
    /\ InitNoPatch

GetValuesFromSourcesCall ==
    GetValuesFromSourcesIn({"none", "WatchError", "GetError"})

NextSources == GetValuesFromSourcesCall

SpecSources == InitSources /\ [][NextSources]_vars

\* One revision reconciles and tears down its phase with the adoption
\* override set, so that it adopts the object somebody else created, while
\* the template controller resolves the sources of one template; a call of
\* either may find its watch or its read failing.  The ConfigMap is copied
\* to "database" and the Secret to "password"; a template names a source
\* object once.
WatchedSources ==
    {s \in TemplateSources :
        s.name = "cm" <=> s.items[1].destination = <<"database">>}
WatchedSourceLists ==
    {l \in SeqsUpTo(WatchedSources, MaxSources) :
        \A i, j \in 1..Len(l) : l[i].name = l[j].name => i = j}
InitWatch ==
    /\ InitPhase
    /\ rev = [o \in Owners |-> 1]
    /\ prev = [o \in Owners |-> {}]
    /\ remote = NoRemotes
    /\ ownerNs = "ns1"
    /\ environ = {"PKO_FORCE_ADOPTION"}
    /\ template \in
         [exists : {TRUE}, deleting : {FALSE}, finalizer : {TRUE},
          namespace : {"right-namespace"},
          sources : WatchedSourceLists]
    /\ watching = {}
    /\ sourceObjs = [n \in SourceNames |-> "full"]
    /\ existingPkg = NoPkg
    /\ lastRec = NoReconcile
    /\ InitNoHostedCluster
    /\ InitNoPackagePhase
    /\ InitNoMapping
    /\ InitNoPhaseObjects
    /\ InitNoPatch

WatchFaults == {"none", "watch", "paused"}
ReconcilePhaseWatching(o) == ReconcilePhaseIn(o, WatchFaults)
ApplyAfterAdoptionWatching(o) == ApplyAfterAdoptionIn(o, WatchFaults)
TeardownPhaseWatching(o) == TeardownPhaseIn(o, WatchFaults, {<<>>})
GetValuesFromSourcesWatching ==
    GetValuesFromSourcesIn({"none", "WatchError", "GetError"})

NextWatch ==
    \/ \E o \in {"X"} : ReconcilePhaseWatching(o)
    \/ \E o \in {"X"} : ApplyAfterAdoptionWatching(o)
    \/ \E o \in {"X"} : TeardownPhaseWatching(o)
    \/ UserCreate
    \/ GetValuesFromSourcesWatching
    \/ CacheSync

SpecWatch == InitWatch /\ [][NextWatch]_vars

\* GetValuesFromSources on sources of one or two items each, all reading
\* the ConfigMap: its value, or its metadata, which is a map, copied to a
\* path, or to a path below it.
ItemKeys == {SourceKey, <<"metadata">>}
ItemDestinations ==
    {<<"db">>, <<"db", ".", "name">>, <<"db", ".", "host">>}
ItemSources ==
    [name : {"cm"}, namespace : {""}, optional : {FALSE},
     items : SeqsUpTo([key : ItemKeys, destination : ItemDestinations], 2)
               \ {<<>>}]
InitItems ==
    /\ InitPhaseIdle
    /\ template \in
         [exists : {TRUE}, deleting : {FALSE}, finalizer : {TRUE},
          namespace : {"right-namespace"},
          sources : SeqsUpTo(ItemSources, MaxSources)]
    /\ watching = {}
    /\ sourceObjs = [n \in SourceNames |-> "full"]
    /\ existingPkg = NoPkg
    /\ lastRec = NoReconcile
    /\ InitNoHostedCluster
    /\ InitNoPackagePhase
    /\ InitNoMapping
    /\ InitNoPhaseObjects
    /\ InitNoPatch

GetValuesFromSourcesItems == GetValuesFromSourcesIn({"none"})

NextItems == GetValuesFromSourcesItems

SpecItems == InitItems /\ [][NextItems]_vars

\* ----------------------------------- hosted cluster controller, specifications
\* One HostedCluster with any status; both builds of the controller
\* reconcile it, any call may fail, the status changes, the HostedCluster
\* and the Package may be deleted.
InitHosted ==
    /\ InitPhaseIdle
    /\ InitNoTemplate
    /\ InitNoPackagePhase
    /\ hostedCluster \in
         [exists : {TRUE}, name : {"hc"}, namespace : {"clusters"},
          uid : {"uid-hc"}, conds : HostedConditionLists]
    /\ package = NoPackage
    /\ image \in Images
    /\ lastHosted = NoHostedReconcile
    /\ InitNoMapping
    /\ InitNoPhaseObjects
    /\ InitNoPatch

NextHosted ==
    \/ ReconcileHostedCluster
    \/ ReconcileHostedClusterReady
    \/ HostedClusterStatus
    \/ HostedClusterDeleted
    \/ PackageDeleted

SpecHosted == InitHosted /\ [][NextHosted]_vars

\* ------------------------------------ condition mapping, specifications
\* The owner's conditions before the call: none, or one written for an
\* earlier generation of the owner.
OwnerConditionLists ==
    {<<>>,
     <<[type |-> "pko/Available", status |-> "False",
        observedGeneration |-> 1]>>}

\* One call of mapConditions on any object and any owner.
InitConditions ==
    /\ InitPhaseIdle
    /\ InitNoTemplate
    /\ InitNoHostedCluster
    /\ InitNoPackagePhase
    /\ mapIn \in
         [conditionMappings : ConditionMappings,
          raw : {"absent", "malformed", "exist"},
          conditions : SeqsUpTo(ObjectConditions, MaxConds),
          generation : 0..MaxGen,
          ownerGeneration : {1, MaxGen},
          ownerConditions : OwnerConditionLists]
    /\ mapIn.raw # "exist" => mapIn.conditions = <<>>
    /\ mapOut = NoMapping
    /\ InitNoPhaseObjects
    /\ InitNoPatch

NextConditions == MapConditionsCall

SpecConditions == InitConditions /\ [][NextConditions]_vars

\* ------------------------------------ objects of a phase, specifications
\* One call of ReconcilePhase on any phase of up to MaxObjects objects.
InitPhaseLoop ==
    /\ InitPhaseIdle
    /\ InitNoTemplate
    /\ InitNoHostedCluster
    /\ InitNoPackagePhase
    /\ InitNoMapping
    /\ phaseIn \in
         [name : PhaseNames, violations : BOOLEAN, paused : BOOLEAN,
          objects : SeqsUpTo(PhaseObjects, MaxObjects),
          ownerConditions : OwnerConditionLists]
    /\ phaseOut = NoPhaseResult
    /\ InitNoPatch

NextPhaseLoop == ReconcilePhaseObjects

SpecPhaseLoop == InitPhaseLoop /\ [][NextPhaseLoop]_vars

\* ------------------------------------ phase of a Package, specifications
\* One call of UpdatePhase on a Package with any conditions.
InitPackagePhase ==
    /\ InitPhaseIdle
    /\ InitNoTemplate
    /\ InitNoHostedCluster
    /\ InitNoMapping
    /\ InitNoPhaseObjects
    /\ InitNoPatch
    /\ pkgConds \in PackageConditionLists
    /\ pkgPhase = ""

NextPackagePhase == UpdatePhase

SpecPackagePhase == InitPackagePhase /\ [][NextPackagePhase]_vars

\* ------------------------------------------- patcher, specifications
\* The objects a cache may show for the key of the desired object.
CachedObjects ==
    [exists : {TRUE}, ns : {"ns1"},
     refs : {NoRefs, [NoRefs EXCEPT !["X"] = "ctrl"],
             [NoRefs EXCEPT !["Y"] = "ctrl"]},
     ann : {<<>>} \cup {FormatInt(r) : r \in 1..MaxRev},
     labels : SUBSET {DynamicCacheLabel, UserLabel},
     spec : {"a", "b"}, rv : {1}, cond : {"none", "True"}]

\* One call of the patcher by owner X or Y, on any cached object with or
\* without the edits of an adoption, while the API server stores the cached
\* object or a later version of it.
InitPatcher ==
    /\ \E r \in 1..MaxRev : rev = [o \in Owners |-> r]
    /\ prev = [o \in Owners |-> {}]
    /\ remote = NoRemotes
    /\ ownerNs = "ns1"
    /\ environ = {}
    /\ cache \in CachedObjects
    /\ live \in {cache, [cache EXCEPT !.rv = 2]}
    /\ rvc = live.rv
    /\ loc = [o \in Owners |-> Idle]
    /\ last = NoCall
    /\ settled = {}
    /\ prevCtrl = "none"
    /\ ownerConds = [o \in Owners |-> "none"]
    /\ adoptee = [o \in Owners |-> "none"]
    /\ lastTd = NoTeardown
    /\ InitNoTemplate
    /\ InitNoHostedCluster
    /\ InitNoPackagePhase
    /\ InitNoMapping
    /\ InitNoPhaseObjects
    /\ \E o \in {"X", "Y"}, status \in {"none", "True"} :
         /\ ~desiredObject(o).err
         /\ patchIn \in
              [desiredObj : {[desiredObject(o).obj EXCEPT !.cond = status]},
               currentObj : {cache},
               updatedObj : IF Adopt(o, cache).err THEN {cache}
                            ELSE {cache, Adopt(o, cache).obj}]
    /\ patchOut = NoPatch

NextPatcher == PatchCall

SpecPatcher == InitPatcher /\ [][NextPatcher]_vars

\* ---------------------------------------------------------------- claims
Revision(obj) == getObjectRevision(obj).val

\* C1: with the adoption override unset, no step moves the controller
\* reference of the live object from an owner to an owner of a lower
\* revision, whatever the interleaving of the calls and however stale the
\* cache they read.
C1_NeverStolenFromNewerRevision ==
    [][~Forced =>
         \A a \in Controllers(live), b \in Controllers(live') :
            a # b => rev[b] >= rev[a]]_vars

\* C2: whenever an owner controls the live object, the revision annotation
\* of the object is at least the revision of the owner that controlled it
\* immediately before.
C2_RevisionAtLeastPreviousController ==
    \A o \in Owners :
        (live.exists /\ IsController(o, live) /\ prevCtrl # "none")
            => Revision(live) >= rev[prevCtrl]

\* C3: the live object never has more than one owner reference with
\* controller=true, also right after an ownership patch.
C3_AtMostOneController == Cardinality(Controllers(live)) <= 1

\* C3 witness: an adoption has taken place, the former controller is still
\* listed as a plain owner next to the new controller.
C3_Witness ==
    /\ live.exists
    /\ \E o \in Owners, p \in Owners :
         o # p /\ live.refs[o] = "ctrl" /\ live.refs[p] = "owner"

Range(seq) == {seq[i] : i \in 1..Len(seq)}
IsWrite(op) == op \in {"Create", "OwnerPatch", "Apply", "Update", "Delete"}
WriteOps(ops) == SelectSeq(ops, IsWrite)

\* The last call reached the adoption decision on an object it found in
\* the cache, past the override of the decision's first step.
Decided(o) ==
    /\ last.owner = o
    /\ ~last.viol /\ ~last.paused /\ last.res # "WatchError"
    /\ last.seen.exists
    /\ ~Forced

\* C4 as claimed: a ReconcilePhase that follows a successful one of the
\* same owner, with the cache showing its result and nothing written in
\* between, issues no write.
C4_IdenticalReconcileWritesNothing ==
    last.idem => WriteOps(last.ops) = <<>>

\* C4 as amended: the same, provided the adoption override is unset.
C4_IdenticalReconcileWritesNothingUnlessForced ==
    (last.idem /\ ~Forced) => WriteOps(last.ops) = <<>>

\* C4 witness: such a second call has run on the object the owner controls.
C4_Witness ==
    /\ last.idem /\ ~Forced /\ last.res = "ok"
    /\ last.seen.exists /\ IsController(last.owner, last.seen)

\* C5: a call of a non-paused owner that finds the object absent from the
\* cache issues exactly one write, a Create, and the object it creates has
\* the cache label, the owner's revision as its revision annotation, the
\* owner as its only controller and, for a namespaced owner, the owner's
\* namespace.
C5_CreatesDesiredObjectOnce ==
    \A o \in Owners :
        (/\ last.owner = o
         /\ ~last.viol /\ ~last.paused /\ last.res # "WatchError"
         /\ ~last.seen.exists)
        => /\ WriteOps(last.ops) = <<"Create">>
           /\ last.res = "ok" =>
                /\ last.actual = <<last.after>>
                /\ last.after.exists
                /\ DynamicCacheLabel \in last.after.labels
                /\ last.after.ann # <<>>
                /\ getObjectRevision(last.after) = [err |-> FALSE, val |-> rev[o]]
                /\ Controllers(last.after) = {o}
                /\ ownerNs # "" => last.after.ns = ownerNs

\* C5 witness: a namespaced owner has created the object.
C5_Witness ==
    /\ last.owner \in Owners /\ last.res = "ok" /\ ~last.paused
    /\ ~last.seen.exists /\ ownerNs # ""
    /\ last.after.exists /\ ~last.before.exists

C7_Case(o) ==
    /\ Decided(o)
    /\ ~IsController(o, last.seen)
    /\ \E p \in prev[o] : IsController(p, last.seen)
    /\ getObjectRevision(last.seen) = [err |-> FALSE, val |-> rev[o]]

C7_RevisionCollision ==
    \A o \in Owners :
        C7_Case(o) => /\ last.res = "RevisionCollisionError"
                      /\ WriteOps(last.ops) = <<>>
                      /\ last.after = last.before

C7_Witness == \E o \in Owners : C7_Case(o) /\ last.seen = last.before

\* C8: the owner is not the controller of the object, the revision of the
\* object is not greater than the owner's, and no previous revision and no
\* remote phase of one controls it: the call returns
\* ObjectNotOwnedByPreviousRevisionError, also for equal revisions, and
\* writes nothing.
C8_Case(o) ==
    /\ Decided(o)
    /\ ~IsController(o, last.seen)
    /\ ~getObjectRevision(last.seen).err
    /\ Revision(last.seen) <= rev[o]
    /\ \A p \in prev[o] :
         /\ ~IsController(p, last.seen)
         /\ \A d \in remote[p] : ~IsController(d, last.seen)

C8_NotOwnedByPreviousRevision ==
    \A o \in Owners :
        C8_Case(o) => /\ last.res = "ObjectNotOwnedByPreviousRevisionError"
                      /\ WriteOps(last.ops) = <<>>
                      /\ last.after = last.before

\* C8 witness: the case with equal revisions, on an object that somebody
\* outside the previous revisions controls.
C8_Witness ==
    \E o \in Owners :
        /\ C8_Case(o)
        /\ Revision(last.seen) = rev[o]
        /\ Controllers(last.seen) # {}

\* C9: the owner is not the controller of the object and the revision of
\* the object is greater than the owner's: the call succeeds, issues no
\* ownership patch and no apply patch, and returns the object as read.
C9_Case(o) ==
    /\ Decided(o)
    /\ ~IsController(o, last.seen)
    /\ ~getObjectRevision(last.seen).err
    /\ Revision(last.seen) > rev[o]

C9_NewerRevisionLeftAlone ==
    \A o \in Owners :
        C9_Case(o) => /\ last.res = "ok"
                      /\ WriteOps(last.ops) = <<>>
                      /\ last.actual = <<last.seen>>
                      /\ last.after = last.before

C9_Witness == \E o \in Owners : C9_Case(o) /\ Controllers(last.seen) # {}

\* C10: a call whose preflight check reports a violation returns a
\* PreflightError and does nothing else: no watch, read, write or probe,
\* the cluster and the owner's conditions are as before.
C10_PreflightViolationMutatesNothing ==
    last.viol => /\ last.res = "PreflightError"
                 /\ last.ops = <<>>
                 /\ last.actual = <<>>
                 /\ last.after = last.before
                 /\ last.condAfter = last.condBefore

\* C10 witness: the violation stopped a call that would have mapped a
\* condition of the live object onto the owner.
C10_Witness ==
    /\ last.viol
    /\ last.before.exists /\ cache = last.before
    /\ last.before.cond # "none" /\ last.condBefore = "none"
    /\ IsController(last.owner, last.before)

\* C11: a ReconcilePhase of a paused owner issues no write, whatever the
\* live object looks like, and when it succeeds its actual list holds the
\* object as read from the cache.
C11_PausedOwnerWritesNothing ==
    last.paused =>
        /\ WriteOps(last.ops) = <<>>
        /\ last.after = last.before
        /\ last.res = "ok" => (last.seen.exists /\ last.actual = <<last.seen>>)
        /\ last.res # "ok" => ~last.seen.exists

\* C11 witness: a paused owner was reconciled on an object that it would
\* have adopted and patched otherwise.
C11_Witness ==
    /\ last.paused /\ last.res = "ok" /\ ~Forced
    /\ Adoptable(last.owner, last.seen) # "none"
    /\ last.seen.spec # DesiredSpec(last.owner)
    /\ last.seen # last.before

\* C12: a TeardownPhase never issues a Delete when the owner is not the
\* controller of the live object; on a present object that somebody else
\* controls it issues an Update that removes the owner's reference and
\* leaves every other owner reference as it was.
C12_TeardownDeletesOnlyControlled ==
    \A o \in Owners :
        (lastTd.owner = o /\ lastTd.before.exists
         /\ ~IsController(o, lastTd.before)
         /\ lastTd.res \notin {"WatchError", "UpdateError"})
        => /\ "Delete" \notin Range(lastTd.ops)
           /\ lastTd.seen.exists =>
                /\ "Update" \in Range(lastTd.ops)
                /\ lastTd.res = "ok" =>
                     /\ lastTd.after.exists
                     /\ lastTd.after.refs =
                          [lastTd.before.refs EXCEPT ![o] = "none"]

\* The object of the last TeardownPhase was counted done: it was absent
\* from the cache, or somebody else controlled it and the Update removing
\* the owner went through, or the owner controlled it and its Delete was
\* answered with NotFound.
C13_CountedDone ==
    /\ lastTd.res \in {"ok", "TeardownError"}
    /\ \/ ~lastTd.seen.exists
       \/ /\ lastTd.seen.exists /\ ~IsController(lastTd.owner, lastTd.seen)
          /\ "Update" \in Range(lastTd.ops)
       \/ /\ lastTd.seen.exists /\ IsController(lastTd.owner, lastTd.seen)
          /\ "Delete" \in Range(lastTd.ops) /\ ~lastTd.before.exists

\* C13: TeardownPhase returns done=true exactly when it returns no error
\* and every object of the phase was counted done in the call; an object
\* whose Delete went through is not counted.
C13_DoneIffEveryObjectCounted ==
    lastTd.owner \in Owners =>
        /\ lastTd.done <=>
             /\ lastTd.res = "ok"
             /\ C13_CountedDone
             /\ \A i \in 2..Len(lastTd.results) : lastTd.results[i] = "done"
        /\ ("Delete" \in Range(lastTd.ops) /\ lastTd.before.exists)
              => ~lastTd.done

\* C13 witness: done=true for a phase of two objects, the Delete of the
\* first answered with NotFound.
C13_Witness ==
    /\ lastTd.done /\ Len(lastTd.results) = 2
    /\ "Delete" \in Range(lastTd.ops)

\* C14: when TeardownPhase is retried until it returns done=true, its
\* writes do not fail for ever, the cache catches up and nobody recreates
\* the object, it returns done=true in the end, and when it does the owner
\* controls no live object of the phase.
C14_TeardownCompletes ==
    /\ TeardownBegun ~> lastTd.done
    /\ [](lastTd.done =>
            ~(lastTd.after.exists /\ IsController(lastTd.owner, lastTd.after)))

\* Owner y had adopted the object from its previous revision x by a
\* ReconcilePhase that succeeded, has torn its phase down since, up to
\* done=true, and nobody else has written to the object.
C15_Case(y, x) ==
    /\ lastTd.owner = y /\ lastTd.res = "ok" /\ lastTd.done
    /\ lastTd.adoptedFrom = x /\ x \in prev[y]
    /\ live = lastTd.after

\* C15 as claimed: adoption by y followed by a completed TeardownPhase of
\* y leaves the object in existence with the ownership it had before the
\* adoption: controlled by x, without a reference to y.
C15_AdoptionThenTeardownRestores ==
    \A y \in Owners, x \in Owners :
        C15_Case(y, x) =>
            /\ live.exists
            /\ IsController(x, live)
            /\ live.refs[y] = "none"

\* C15 as amended: adoption by y followed by a completed TeardownPhase of
\* y leaves no object: y, its controller, has deleted it.
C15_AdoptionThenTeardownDeletes ==
    \A y \in Owners, x \in Owners : C15_Case(y, x) => ~live.exists

\* C15 witness: the tear-down that follows an adoption has returned
\* done=true, after it had issued the Delete.
C15_Witness ==
    \E y \in Owners, x \in Owners :
        /\ C15_Case(y, x)
        /\ prevCtrl = y

\* ------------------------------------------- claims, template controller
Builds == {"inline", "reconcilers"}
\* The call fetched the template owner.
Fetched == /\ lastRec.build \in Builds
           /\ lastRec.fault # "GetOwnerError"
           /\ lastRec.fetched.exists
\* The call was answered NotFound for the template owner.
OwnerNotFound == /\ lastRec.build \in Builds
                 /\ lastRec.fault # "GetOwnerError"
                 /\ ~lastRec.fetched.exists
TemplateWrites == {"RemoveFinalizer", "AddFinalizer", "Create", "Update",
                   "UpdateStatus"}

\* C16: Reconcile calls Free on the dynamic cache exactly when the owner it
\* fetched has a deletion timestamp; when the owner is not found it returns
\* without error, calls neither Free nor any write and changes nothing.
C16_FreeIffDeletionTimestamp ==
    /\ lastRec.build \in Builds =>
         ("Free" \in Range(lastRec.ops)
            <=> (Fetched /\ lastRec.fetched.deleting))
    /\ OwnerNotFound =>
         /\ lastRec.err = "none"
         /\ lastRec.ops = <<>>
         /\ lastRec.templateAfter = lastRec.fetched
         /\ lastRec.pkgAfter = lastRec.pkgBefore

C16_Witness ==
    /\ Fetched /\ lastRec.fetched.deleting
    /\ "Free" \in Range(lastRec.ops)
    /\ lastRec.watchingAfter = {}

\* C17: when the fetched owner has a deletion timestamp, Reconcile frees
\* the cache, removes the finalizer and exits: no finalizer is added, no
\* source is watched or read, no derived object is created or updated, and
\* without a fault the call returns no error.
C17_DeletionEndsReconcile ==
    (Fetched /\ lastRec.fetched.deleting) =>
        /\ Range(lastRec.ops) \subseteq {"Free", "RemoveFinalizer"}
        /\ lastRec.pkgAfter = lastRec.pkgBefore
        /\ lastRec.fault = "none" => lastRec.err = "none"

\* Items of the sources, in the order GetValuesFromSources visits them.
ItemRefs(srcs) ==
    UNION {{<<i, j>> : j \in 1..Len(srcs[i].items)} : i \in 1..Len(srcs)}
Earlier(a, b) == a[1] < b[1] \/ (a[1] = b[1] /\ a[2] < b[2])
DestinationOf(srcs, a) == Split(srcs[a[1]].items[a[2]].destination)
FirstWriter(srcs, path) ==
    CHOOSE a \in ItemRefs(srcs) :
        /\ DestinationOf(srcs, a) = path
        /\ \A b \in ItemRefs(srcs) :
             DestinationOf(srcs, b) = path => ~Earlier(b, a)
\* Every source object is there with its key and no fault cuts the call.
AllSourcesRead ==
    /\ Fetched /\ ~lastRec.fetched.deleting
    /\ lastRec.fault = "none"
    /\ \A i \in 1..Len(lastRec.fetched.sources) :
         lastRec.objs[lastRec.fetched.sources[i].name] = "full"
C18_Case ==
    /\ AllSourcesRead
    /\ \E a, b \in ItemRefs(lastRec.fetched.sources) :
         /\ Earlier(a, b)
         /\ DestinationOf(lastRec.fetched.sources, a)
              = DestinationOf(lastRec.fetched.sources, b)

ReachedSource(i) == lastRec.values.at = 0 \/ lastRec.values.at >= i
ReadsOf(i) ==
    {k \in 1..Len(lastRec.values.reads) : lastRec.values.reads[k].i = i}
NoNamespace(i) ==
    LET own == lastRec.fetched.namespace
        src == lastRec.fetched.sources[i]
    IN  \/ own # "" /\ src.namespace # "" /\ own # src.namespace
        \/ own = "" /\ src.namespace = ""

\* C19: a namespaced owner reads a source in its own namespace and fails
\* with BadRequest when the source declares another one; a cluster-scoped
\* owner reads it in the namespace the source declares and fails with
\* BadRequest when it declares none. A source failing so is neither
\* watched nor read.
C19_SourceNamespaceResolution ==
    lastRec.build = "GetValuesFromSources" =>
        \A i \in 1..Len(lastRec.fetched.sources) :
            LET own == lastRec.fetched.namespace
                src == lastRec.fetched.sources[i]
            IN  /\ NoNamespace(i) =>
                     /\ ReadsOf(i) = {}
                     /\ ReachedSource(i) =>
                          lastRec.err = "BadRequest" /\ lastRec.values.at = i
                /\ (~NoNamespace(i) /\ ReachedSource(i)) =>
                     /\ ReadsOf(i) # {}
                     /\ \A k \in ReadsOf(i) :
                          lastRec.values.reads[k].namespace =
                             IF own # "" THEN own ELSE src.namespace

C19_Witness ==
    /\ lastRec.build = "GetValuesFromSources"
    /\ lastRec.fetched.namespace # ""
    /\ Len(lastRec.fetched.sources) = 2
    /\ ~NoNamespace(1) /\ NoNamespace(2)
    /\ lastRec.err = "BadRequest"
    /\ ReadsOf(1) # {} /\ ReadsOf(2) = {}

\* The source-value map the reconcile is to render from when the optional
\* sources that are not found are left out.
PresentItems ==
    {a \in ItemRefs(lastRec.fetched.sources) :
        lastRec.objs[lastRec.fetched.sources[a[1]].name] = "full"}
C20_Case ==
    /\ Fetched /\ ~lastRec.fetched.deleting
    /\ lastRec.fault = "none"
    /\ \A i \in 1..Len(lastRec.fetched.sources) :
         \/ lastRec.objs[lastRec.fetched.sources[i].name] = "full"
         \/ lastRec.fetched.sources[i].optional
    /\ \E i \in 1..Len(lastRec.fetched.sources) :
         lastRec.objs[lastRec.fetched.sources[i].name] = "absent"
    /\ \A a, b \in PresentItems :
         a # b => DestinationOf(lastRec.fetched.sources, a)
                    # DestinationOf(lastRec.fetched.sources, b)
NotFoundRequired ==
    /\ Fetched /\ ~lastRec.fetched.deleting
    /\ lastRec.fault \in {"none", "GetError"}
    /\ Len(lastRec.fetched.sources) > 0
    /\ \/ lastRec.fault = "GetError"
       \/ /\ lastRec.objs[lastRec.fetched.sources[1].name] = "absent"
          /\ ~lastRec.fetched.sources[1].optional

\* C20: an optional source that is not found is skipped, none of its items
\* is written, and the reconcile goes on to apply the templated object;
\* any other read error, and NotFound on a source that is not optional, is
\* returned as an error.
C20_OptionalSourceSkipped ==
    /\ C20_Case =>
         /\ lastRec.pkgAfter.exists
         /\ DOMAIN lastRec.pkgAfter.config =
              {DestinationOf(lastRec.fetched.sources, a) : a \in PresentItems}
         /\ lastRec.err \notin {"NotFound", "GetError"}
    /\ NotFoundRequired =>
         /\ lastRec.err \in {"NotFound", "GetError"}
         /\ lastRec.pkgAfter = lastRec.pkgBefore

Count(ops, op) == Len(SelectSeq(ops, LAMBDA x : x = op))

\* C21: a reconcile that finds no derived object and whose Create succeeds
\* creates the object exactly once and returns no error.
C21_CreateCompletesWithoutError ==
    (/\ Fetched /\ ~lastRec.fetched.deleting
     /\ lastRec.fault = "none"
     /\ ~lastRec.pkgBefore.exists
     /\ "Create" \in Range(lastRec.ops))
    => /\ Count(lastRec.ops, "Create") = 1
       /\ lastRec.pkgAfter.exists
       /\ lastRec.err = "none"

\* C27: a template reconcile that fails on retrieving a source, on a
\* duplicate destination or on rendering recomputes the owner's phase and
\* writes the owner's status.
C27_ErrorsWriteStatus ==
    (/\ Fetched /\ ~lastRec.fetched.deleting
     /\ \/ lastRec.values.err # "none"
        \/ lastRec.err = "RenderError")
    => "UpdateStatus" \in Range(lastRec.ops)

\* ------------------------------------- claims, hosted cluster controller
HostedFetched ==
    /\ lastHosted.build # "none"
    /\ lastHosted.fetched.exists
    /\ lastHosted.fault \notin {"GetOwnerError", "ConditionsError"}

AvailableTrue(conds) ==
    \E i \in 1..Len(conds) :
        conds[i].type = "Available" /\ conds[i].status = "True"

\* C22: a reconcile of a HostedCluster whose Available condition is absent
\* or not True creates no Package, issues no write and returns no error.
C22_NoPackageUnlessAvailable ==
    (HostedFetched /\ ~AvailableTrue(lastHosted.fetched.conds))
    => /\ WriteOps(lastHosted.ops) = <<>>
       /\ lastHosted.after = lastHosted.before
       /\ lastHosted.err = "none"

\* C23: a reconcile of an Available HostedCluster without a Package of the
\* derived key creates exactly one Package <owner-name>_remote_phase_manager
\* in the owner's namespace, with the configured image, the cache label and
\* a controller reference to the HostedCluster; when the Package exists the
\* reconcile writes nothing.
C23_PackageCreatedOnce ==
    (/\ HostedFetched /\ lastHosted.fault = "none"
     /\ isHostedClusterReady(lastHosted.fetched.conds))
    => IF lastHosted.before.exists
       THEN /\ WriteOps(lastHosted.ops) = <<>>
            /\ lastHosted.after = lastHosted.before
       ELSE /\ Count(lastHosted.ops, "Create") = 1
            /\ lastHosted.after =
                 [exists |-> TRUE,
                  name |-> <<lastHosted.fetched.name, "_remote_phase_manager">>,
                  namespace |-> lastHosted.fetched.namespace,
                  image |-> lastHosted.image,
                  labels |-> {DynamicCacheLabel},
                  controller |-> lastHosted.fetched.uid]

\* --------------------------------------------- claims, condition mapping
Outdated(condition, in) ==
    /\ condition.observedGeneration # 0
    /\ condition.observedGeneration # in.generation

\* The object in has a current condition that some declared mapping
\* sends to the owner's type with this status.
Propagated(in, type, status) ==
    \E i \in 1..Len(in.conditions) :
        /\ ~Outdated(in.conditions[i], in)
        /\ in.conditions[i].status = status
        /\ \E k \in 1..Len(in.conditionMappings) :
             /\ in.conditionMappings[k].sourceType = in.conditions[i].type
             /\ in.conditionMappings[k].destinationType = type

Written == Range(mapOut.conditions) \ Range(mapIn.ownerConditions)

\* C24: every condition mapConditions puts on the owner comes from a
\* condition of the object whose observedGeneration is 0 or the object's
\* generation and whose type has a declared mapping; when every condition
\* of the object is outdated the owner's conditions do not change.
C24_OnlyCurrentMappedConditions ==
    mapOut.called
    => /\ \A c \in Written : Propagated(mapIn, c.type, c.status)
       /\ Range(mapIn.ownerConditions) \ Range(mapOut.conditions) # {}
            => Written # {}
       /\ (\A i \in 1..Len(mapIn.conditions) :
              Outdated(mapIn.conditions[i], mapIn))
            => mapOut.conditions = mapIn.ownerConditions

C24_Witness ==
    /\ mapOut.called /\ mapIn.raw = "exist"
    /\ Len(mapIn.conditions) = 2
    /\ Outdated(mapIn.conditions[2], mapIn)
    /\ mapIn.conditions[1].status # mapIn.conditions[2].status
    /\ \A i \in 1..2 : mapIn.conditions[i].type = "Available"
    /\ mapIn.conditionMappings # <<>>
    /\ Written # {}

\* C25: every condition mapConditions writes carries the owner's generation
\* as observedGeneration, and the owner's list holds at most one condition
\* of a type.
C25_OwnerGenerationOneEntryPerType ==
    mapOut.called
    => /\ \A c \in Written : c.observedGeneration = mapIn.ownerGeneration
       /\ \A i, j \in 1..Len(mapOut.conditions) :
            mapOut.conditions[i].type = mapOut.conditions[j].type => i = j

C25_Witness ==
    /\ mapOut.called /\ mapIn.raw = "exist"
    /\ mapIn.ownerConditions # <<>>
    /\ mapIn.ownerGeneration = MaxGen
    /\ mapIn.generation # MaxGen
    /\ Len(mapOut.conditions) = 1
    /\ mapOut.conditions[1] =
         [type |-> "pko/Available", status |-> "True",
          observedGeneration |-> MaxGen]

\* ------------------------------------------- claims, phase reconciler
\* The revision annotation of the stored object goes down in this step.
RevisionDecreases ==
    /\ live.exists /\ live'.exists
    /\ ~getObjectRevision(live).err /\ ~getObjectRevision(live').err
    /\ getObjectRevision(live').val < getObjectRevision(live).val

\* C26: no step of a ReconcilePhase call lowers the revision annotation of
\* the stored object.
C26_RevisionNeverDecreases == [][~RevisionDecreases]_vars

\* C26 as amended: the same, provided the adoption override is unset.
C26_RevisionNeverDecreasesUnlessForced ==
    [][~Forced => ~RevisionDecreases]_vars

\* C26 witness: with the override unset, a call that found the object with
\* a lower revision annotation has adopted it and raised the annotation.
C26_Witness ==
    /\ ~Forced /\ last.res = "ok"
    /\ last.before.exists /\ last.after.exists
    /\ "Apply" \in Range(last.ops)
    /\ getObjectRevision(last.before).val < getObjectRevision(last.after).val

\* The object i of the phase fails in reconcilePhaseObject.
Fails(i) == objectCalls(phaseIn.objects[i], phaseIn.paused).err # "none"
Touched(i) == \E k \in 1..Len(phaseOut.ops) : phaseOut.ops[k].object = i
Probed(i) ==
    \E k \in 1..Len(phaseOut.ops) :
        phaseOut.ops[k] = [object |-> i, op |-> "Probe"]

\* C28: ReconcilePhase goes through the objects in declared order and
\* returns at the first object that fails: the objects before it were
\* reconciled and probed, the failing one is not probed, and no object
\* after it is watched, read, written or probed.
C28_DeclaredOrderFirstFailureAborts ==
    (phaseOut.called /\ ~phaseIn.violations)
    => LET n == Len(phaseIn.objects)
           failing == {i \in 1..n : Fails(i)}
           first == IF failing = {} THEN n + 1
                    ELSE CHOOSE i \in failing : \A j \in failing : i <= j
       IN  /\ \A j, k \in 1..Len(phaseOut.ops) :
                j <= k => phaseOut.ops[j].object <= phaseOut.ops[k].object
           /\ \A i \in 1..n :
                /\ Touched(i) <=> i <= first
                /\ Probed(i) <=> i < first
           /\ phaseOut.err # "none" <=> failing # {}
           /\ failing # {} => phaseOut.at = first

C28_Witness ==
    /\ phaseOut.called /\ ~phaseIn.violations /\ ~phaseIn.paused
    /\ Len(phaseIn.objects) = 2
    /\ phaseIn.objects[1].outcome = "ApplyError"
    /\ phaseIn.objects[2].outcome = "Absent"
    /\ phaseOut.err = "ApplyError"
    /\ phaseOut.ops = Tag(1, <<"Watch", "Get", "Apply">>)

\* C29: a call of ReconcilePhase in which some object fails leaves the
\* conditions of the owner as they were.
C29_FailureLeavesConditions ==
    (phaseOut.called /\ phaseOut.err # "none")
    => phaseOut.conditions = phaseIn.ownerConditions

\* The desired object asks for nothing the object read does not have:
\* namespace, spec and revision annotation are equal and the desired labels
\* are among the labels read. Status and owner references do not count.
Dominated(desiredObj, updatedObj) ==
    /\ desiredObj.ns = updatedObj.ns
    /\ desiredObj.spec = updatedObj.spec
    /\ desiredObj.ann = updatedObj.ann
    /\ desiredObj.labels \subseteq updatedObj.labels

\* C30: the patcher sends an apply patch exactly when the desired object,
\* status and owner references apart, is not dominated by the object read;
\* the body is the desired object over the labels read, without status and
\* without owner references; a dominated desired object causes no write.
C30_ApplyIffNotDominated ==
    patchOut.called
    => LET d == patchIn.desiredObj
           u == patchIn.updatedObj
       IN  /\ "Apply" \in Range(patchOut.ops) <=> ~Dominated(d, u)
           /\ "Apply" \in Range(patchOut.ops)
                => /\ patchOut.body.cond = "none"
                   /\ patchOut.body.refs = NoRefs
                   /\ patchOut.body.labels = d.labels \cup u.labels
                   /\ patchOut.body.spec = d.spec
                   /\ patchOut.body.ann = d.ann
                   /\ patchOut.body.ns = d.ns
           /\ Dominated(d, u)
                => /\ patchOut.ops = <<>>
                   /\ patchOut.after = patchOut.before
                   /\ patchOut.err = "none"

C30_Witness ==
    /\ patchOut.called /\ patchOut.err = "none"
    /\ patchIn.desiredObj.cond = "True"
    /\ patchOut.before.cond = "none"
    /\ UserLabel \in patchIn.updatedObj.labels
    /\ patchOut.ops = <<"Apply">>
    /\ patchOut.after # patchOut.before

\* A call returns in this step and its patcher has sent an apply patch.
ApplySent == last' # last /\ "Apply" \in Range(last'.ops)

\* C31: an apply patch changes the stored object only when the object the
\* call had read from the cache is the stored one; an apply patch computed
\* from an object that was modified since is refused and changes nothing.
C31_StaleApplyRejected ==
    [][ApplySent =>
          /\ live' # live => last'.seen = live
          /\ last'.seen # live
               => /\ live' = live
                  /\ last'.res \in {"Conflict", "ApplyError"}]_vars

\* C31 witness: a call whose cache showed an object the owner controls,
\* modified on the cluster since, sent an apply patch that was refused.
C31_Witness ==
    /\ last.res = "Conflict"
    /\ last.ops = <<"Watch", "Get", "Apply">>
    /\ last.seen.exists /\ last.before.exists
    /\ last.seen.rv # last.before.rv
    /\ last.after = last.before

\* Every "Get" of a sequence of operations on one object comes after a
\* "Watch" in it.
WatchedBeforeRead(ops) ==
    \A i \in DOMAIN ops :
        ops[i] = "Get" => \E j \in 1..(i - 1) : ops[j] = "Watch"

\* A call that ended in a failing Watch has neither read nor written the
\* object.
OnlyWatched(call) ==
    call.res = "WatchError"
        => call.ops = <<"Watch">> /\ ~call.seen.exists

\* The reads of GetValuesFromSources: every Get follows the Watch of the
\* same source object, and the source whose Watch failed was not read.
SourcesWatchedBeforeRead(v) ==
    /\ \A i \in DOMAIN v.reads :
          v.reads[i].op = "Get"
              => \E j \in 1..(i - 1) :
                    v.reads[j] = [v.reads[i] EXCEPT !.op = "Watch"]
    /\ v.err = "WatchError"
          => /\ \A i \in DOMAIN v.reads :
                   v.reads[i].op = "Get" => v.reads[i].i < v.at
             /\ v.sources =
                   GetValuesFromSources(lastRec.fetched.namespace,
                       SubSeq(lastRec.fetched.sources, 1, v.at - 1),
                       lastRec.objs, "none").sources

\* C32: in ReconcilePhase, TeardownPhase and GetValuesFromSources a read
\* from the dynamic cache comes after the Watch of that object in the same
\* call, and a call whose Watch failed has neither read nor written the
\* object.
C32_WatchBeforeRead ==
    /\ WatchedBeforeRead(last.ops) /\ OnlyWatched(last)
    /\ WatchedBeforeRead(lastTd.ops) /\ OnlyWatched(lastTd)
    /\ lastRec.build = "GetValuesFromSources"
          => SourcesWatchedBeforeRead(lastRec.values)

C32_Witness ==
    /\ last.res = "WatchError" /\ last.before.exists
    /\ lastTd.res = "ok" /\ "Get" \in Range(lastTd.ops)
    /\ lastRec.build = "GetValuesFromSources"
    /\ lastRec.values.err = "WatchError"
    /\ Len(lastRec.fetched.sources) = 2

\* The last call of ReconcilePhase found the object in the cache and gave
\* it to the adoption check.
Checked == last.owner # "none" /\ last.seen.exists /\ ~last.paused

\* The adoption check answers adopt for the object of the last call,
\* whichever previous revisions it is given.
AdoptsWhateverPrevious ==
    \A previous \in SUBSET Owners :
        Check(last.owner, last.seen, previous) =
            [adopt |-> TRUE, err |-> "none"]

\* C33 as stated: when the environment variable FORCE_ADOPTION holds a
\* value, the adoption check returns adopt for every existing object.
C33_ForceAdoptionAdopts ==
    (Getenv("FORCE_ADOPTION") # "" /\ Checked) => AdoptsWhateverPrevious

\* C33: when the environment variable PKO_FORCE_ADOPTION holds a value,
\* the adoption check returns adopt for every existing object, whatever
\* its controller and its revision annotation and whichever previous
\* revisions are listed.
C33_OverrideAdopts ==
    (Getenv("PKO_FORCE_ADOPTION") # "" /\ Checked) => AdoptsWhateverPrevious

\* C33 witness: under the override an owner that lists no previous
\* revision has taken over an object controlled by a higher revision.
C33_Witness ==
    /\ Getenv("PKO_FORCE_ADOPTION") # "" /\ Checked
    /\ prev[last.owner] = {}
    /\ \E u \in Owners \ {last.owner} : IsController(u, last.seen)
    /\ getObjectRevision(last.seen).val > rev[last.owner]
    /\ "OwnerPatch" \in Range(last.ops)
    /\ IsController(last.owner, last.after)

\* The controller of the object read by the last call is a remote phase of
\* a previous revision of o that holds no reference on the object itself.
C34_Delegated(o) ==
    /\ Decided(o)
    /\ \E p \in prev[o] :
          /\ last.seen.refs[p] = "none"
          /\ \E d \in remote[p] : IsController(d, last.seen)

\* The controller of the object is neither a previous revision of o nor a
\* remote phase of one.
C34_Foreign(o) ==
    /\ Decided(o)
    /\ \E d \in Controllers(last.seen) \ ({o} \cup prev[o]) :
          \A p \in prev[o] : d \notin remote[p]

\* The call went on to adopt: it sent the ownership patch.
Adopting == "OwnerPatch" \in Range(last.ops)

\* C34: an object controlled by a remote phase of a previous revision
\* counts as controlled by a previous revision, also when that revision
\* holds no reference on it, and an owner of a higher revision adopts it;
\* an object controlled by a phase object that is no remote phase of a
\* listed previous revision does not count, and is not adopted.
C34_RemotePhaseCounts ==
    \A o \in Owners :
        /\ C34_Delegated(o)
              => /\ isControlledByPreviousRevision(last.seen, prev[o])
                 /\ Revision(last.seen) < rev[o] => Adopting
        /\ C34_Foreign(o)
              => /\ ~isControlledByPreviousRevision(last.seen, prev[o])
                 /\ ~Adopting
                 /\ Revision(last.seen) <= rev[o]
                       => last.res = "ObjectNotOwnedByPreviousRevisionError"

C34_Witness ==
    /\ C34_Delegated("Y")
    /\ Revision(last.seen) < rev["Y"]
    /\ Adopting
    /\ IsController("Y", last.after)

\* A call of a revision whose listed previous revision has no remote phase
\* met an object that a phase object controls.
C34_WitnessForeign ==
    /\ C34_Foreign("Y")
    /\ prev["Y"] = {"Z"} /\ remote["Z"] = {}
    /\ IsController("X", last.seen)
    /\ last.res = "ObjectNotOwnedByPreviousRevisionError"

\* The objects of the phase whose probe fails, in the order of the phase.
FailedProbeObjects ==
    SelectSeq([i \in 1..Len(phaseIn.objects) |-> i],
              LAMBDA i : ~phaseIn.objects[i].probe)

\* C35: a ReconcilePhase none of whose objects fails returns no error and
\* every object, each of them probed; with a failed probe it returns the
\* ProbingResult naming the phase and the objects whose probe failed, in
\* the order of the phase, and with none the zero ProbingResult.
C35_ProbingResult ==
    (/\ phaseOut.called /\ ~phaseIn.violations
     /\ \A i \in 1..Len(phaseIn.objects) : ~Fails(i))
    => /\ phaseOut.err = "none"
       /\ phaseOut.actualObjects = [i \in 1..Len(phaseIn.objects) |-> i]
       /\ \A i \in 1..Len(phaseIn.objects) : Probed(i)
       /\ IF FailedProbeObjects # <<>>
          THEN /\ phaseOut.res =
                    ProbingResult(phaseIn.name, FailedProbeObjects)
               /\ ~IsZero(phaseOut.res)
          ELSE IsZero(phaseOut.res)

\* C35 witness: the probe of the first object fails, the second object is
\* created and its probe fails as well.
C35_Witness ==
    /\ phaseOut.called /\ phaseOut.err = "none"
    /\ phaseIn.name = "deploy"
    /\ Len(phaseIn.objects) = 2
    /\ phaseIn.objects[2].outcome = "Absent"
    /\ phaseOut.res = ProbingResult("deploy", <<1, 2>>)

\* The revision annotation of the object holds a value that is no number.
Malformed(obj) == obj.ann # <<>> /\ ParseInt(obj.ann).err

\* The last call ended in the error of the adoption check on the revision
\* annotation, without a write and without a change to the object.
RevisionParseFailure ==
    /\ last.res = "RevisionParseError"
    /\ last.ops = <<"Watch", "Get">>
    /\ last.actual = <<>>
    /\ ~(live # last.before /\ live = last.after)

\* A missing or empty revision annotation reads as revision 0.
MissingAnnotationIsZero ==
    (Checked /\ last.seen.ann = <<>>)
    => /\ getObjectRevision(last.seen) = [err |-> FALSE, val |-> 0]
       /\ last.res # "RevisionParseError"

\* C36 as stated: a missing or empty revision annotation reads as 0, and
\* a call that finds a malformed one ends in the error of the adoption
\* check, adopting and writing nothing.
C36_MalformedAnnotationFails ==
    /\ MissingAnnotationIsZero
    /\ (Checked /\ Malformed(last.seen)) => RevisionParseFailure

\* C36: a missing or empty revision annotation reads as 0; a call of an
\* owner that does not control the object, with the override unset, that
\* finds a malformed one ends in the error of the adoption check, adopting
\* and writing nothing.
C36_MalformedAnnotationFailsForOthers ==
    /\ MissingAnnotationIsZero
    /\ (/\ Checked /\ Malformed(last.seen)
        /\ ~Forced /\ ~IsController(last.owner, last.seen))
       => RevisionParseFailure

C36_Witness ==
    /\ Checked /\ Malformed(last.seen)
    /\ ~Forced /\ ~IsController(last.owner, last.seen)
    /\ last.owner = "Y" /\ IsController("X", last.seen)
    /\ last.res = "RevisionParseError"
    /\ last.after = last.before

\* An owner that controls the object overwrites a malformed annotation.
C36_WitnessController ==
    /\ Checked /\ Malformed(last.seen) /\ ~Forced
    /\ IsController(last.owner, last.seen)
    /\ last.res = "ok" /\ "Apply" \in Range(last.ops)
    /\ last.after.ann = FormatInt(rev[last.owner])

\* The last reconcile of the template owner found the derived object in
\* the cluster and rendered the same configuration as the object holds.
RenderedAsStored ==
    /\ lastRec.build \in {"inline", "reconcilers"}
    /\ "GetPkg" \in Range(lastRec.ops)
    /\ lastRec.pkgBefore.exists
    /\ TemplatePackage(lastRec.values.sources).config =
          lastRec.pkgBefore.config

\* C37: a reconcile of the template owner that finds the derived object
\* in the cluster, differing from the rendered one only in what the API
\* server added, sends no Update.
C37_NoUpdateWithoutSemanticChange ==
    RenderedAsStored => "Update" \notin Range(lastRec.ops)

\* The same for the build whose templateReconciler decides on the update.
C37_NoUpdateWithoutSemanticChangeReconcilers ==
    (RenderedAsStored /\ lastRec.build = "reconcilers")
        => "Update" \notin Range(lastRec.ops)

\* The conditions of the Package hold one of the type, with status True.
Holds(type) ==
    \E i \in DOMAIN pkgConds :
        pkgConds[i] = [type |-> type, status |-> "True"]
Has(type) == \E i \in DOMAIN pkgConds : pkgConds[i].type = type

\* C38: the phase set by UpdatePhase is Invalid when the Invalid condition
\* is True; else Unpacking when there is no Unpacked condition; else
\* Progressing when Progressing is True; else Available when Available is
\* True; else NotReady.
C38_PhasePrecedence ==
    pkgPhase # ""
    => /\ Holds("Invalid") => pkgPhase = "Invalid"
       /\ (~Holds("Invalid") /\ ~Has("Unpacked")) => pkgPhase = "Unpacking"
       /\ (~Holds("Invalid") /\ Has("Unpacked") /\ Holds("Progressing"))
            => pkgPhase = "Progressing"
       /\ (/\ ~Holds("Invalid") /\ Has("Unpacked")
           /\ ~Holds("Progressing") /\ Holds("Available"))
            => pkgPhase = "Available"
       /\ (/\ ~Holds("Invalid") /\ Has("Unpacked")
           /\ ~Holds("Progressing") /\ ~Holds("Available"))
            => pkgPhase = "NotReady"

\* C38 witness: Progressing and Available are both True on an unpacked
\* Package, and the phase is Progressing.
C38_Witness ==
    /\ pkgPhase = "Progressing"
    /\ Has("Unpacked") /\ Holds("Progressing") /\ Holds("Available")

\* Object k is the first object of the phase that the cache does not hold,
\* and no object before it fails.
FirstAbsent(k) ==
    /\ k \in 1..Len(phaseIn.objects)
    /\ phaseIn.objects[k].outcome \in {"Absent", "CreateError"}
    /\ \A i \in 1..(k - 1) :
          phaseIn.objects[i].outcome \in {"Present", "ApplyError", "CheckError"}

\* C39: a ReconcilePhase of a paused owner that comes to an object absent
\* from the cache returns the error of the lookup for that object, has
\* written nothing, and returns no objects, also none of those it had
\* read before.
C39_PausedAbsentFails ==
    \A k \in 1..MaxObjects :
        (/\ phaseOut.called /\ ~phaseIn.violations /\ phaseIn.paused
         /\ FirstAbsent(k))
        => /\ phaseOut.err = "PausedLookupError"
           /\ phaseOut.at = k
           /\ phaseOut.actualObjects = <<>>
           /\ \A n \in DOMAIN phaseOut.ops :
                 phaseOut.ops[n].op \in {"Watch", "Get", "Probe"}
           /\ \A i \in 1..Len(phaseIn.objects) : i > k => ~Touched(i)

\* C39 witness: the first object was read and probed, the second is
\* absent.
C39_Witness ==
    /\ phaseOut.called /\ ~phaseIn.violations /\ phaseIn.paused
    /\ Len(phaseIn.objects) = 2
    /\ phaseIn.objects[1].outcome = "Present"
    /\ phaseIn.objects[2].outcome = "Absent"
    /\ Probed(1)
    /\ phaseOut.err = "PausedLookupError"
    /\ phaseOut.actualObjects = <<>>

\* The items of the last call of GetValuesFromSources, the value each of
\* them copies and the path it copies it to.
CalledItems == ItemRefs(lastRec.fetched.sources)
CopiedBy(a) ==
    LET src == lastRec.fetched.sources[a[1]]
    IN  NestedFieldCopy(SourceObject(src.name, lastRec.objs[src.name]),
                        Split(src.items[a[2]].key)).value
WrittenTo(a) == DestinationOf(lastRec.fetched.sources, a)
IsLeaf(value) == DOMAIN value = {<<>>}
ProperPrefix(p, q) == IsPrefix(p, q) /\ p # q

\* The destination of the later item b equals a path that item a made, is
\* a prefix of one, or descends through a value of a that is no map.
Collides(a, b) ==
    LET below == Below(WrittenTo(b), Len(WrittenTo(a)))
    IN  \/ IsPrefix(WrittenTo(b), WrittenTo(a))
        \/ /\ ProperPrefix(WrittenTo(a), WrittenTo(b))
           /\ \E v \in DOMAIN CopiedBy(a) :
                 IsPrefix(below, v) \/ IsPrefix(v, below)

SourcesCalled ==
    /\ lastRec.build = "GetValuesFromSources"
    /\ lastRec.fault = "none"

\* A later item that collides with an earlier one fails the call, and a
\* call none of whose items collide writes them all.
CollisionFails ==
    /\ (\E a, b \in CalledItems : Earlier(a, b) /\ Collides(a, b))
         => lastRec.values.err \in {"DuplicateDestination", "AccessorError"}
    /\ (\A a, b \in CalledItems : Earlier(a, b) => ~Collides(a, b))
         => /\ lastRec.values.err = "none"
            /\ \A a \in CalledItems :
                  NestedFieldNoCopy(lastRec.values.sources, WrittenTo(a)).found

\* C40 as stated: after a call that wrote all its items the source-value
\* map holds at the destination of each item exactly the value the item
\* copied, and a later item that collides with an earlier one fails the
\* call.
C40_EarlierValueUntouched ==
    SourcesCalled
    => /\ CollisionFails
       /\ lastRec.values.err = "none"
            => \A a \in CalledItems :
                  NestedFieldCopy(lastRec.values.sources, WrittenTo(a)).value
                      = CopiedBy(a)

\* C40: after a call that wrote all its items every leaf an item copied
\* is in the source-value map with its value, and the map holds more at
\* the destination of an item only when the item copied a map and a later
\* item wrote below its destination; a later item that collides with an
\* earlier one fails the call.
C40_EarlierValueKept ==
    SourcesCalled
    => /\ CollisionFails
       /\ lastRec.values.err = "none"
            => \A a \in CalledItems :
                  LET now == NestedFieldCopy(lastRec.values.sources,
                                             WrittenTo(a)).value
                  IN  /\ \A v \in DOMAIN CopiedBy(a) :
                            v \in DOMAIN now /\ now[v] = CopiedBy(a)[v]
                      /\ now # CopiedBy(a)
                            => /\ ~IsLeaf(CopiedBy(a))
                               /\ \E b \in CalledItems :
                                     /\ Earlier(a, b)
                                     /\ ProperPrefix(WrittenTo(a),
                                                     WrittenTo(b))

\* C40 witness: the metadata of the ConfigMap was copied to db, the value
\* of the ConfigMap to db.host, and the map holds both below db.
C40_Witness ==
    /\ SourcesCalled /\ lastRec.values.err = "none"
    /\ DOMAIN lastRec.values.sources = {<<"db", "name">>, <<"db", "host">>}
    /\ lastRec.values.sources[<<"db", "name">>] = "cm"
    /\ lastRec.values.sources[<<"db", "host">>] = ValueOf("cm")

\* Two items of different sources wrote next to each other below db.
C40_WitnessSiblings ==
    /\ SourcesCalled /\ lastRec.values.err = "none"
    /\ Len(lastRec.fetched.sources) = 2
    /\ \E a, b \in CalledItems :
          /\ a[1] # b[1]
          /\ IsLeaf(CopiedBy(a)) /\ IsLeaf(CopiedBy(b))
          /\ WrittenTo(a) = <<"db", "name">>
          /\ WrittenTo(b) = <<"db", "host">>
====
